---- MODULE Spec2Model ----
(***************************************************************************)
(* Conway's Game of Life: the bit-packed, SIMD, multi-threaded             *)
(* UltimateEngine<N> (src/src/engines/ultimate.rs) next to the scalar      *)
(* NaiveEngine (src/src/engines/naive.rs) over a StandardGrid              *)
(* (src/src/grid/standard.rs, src/src/grid/mod.rs).                        *)
(*                                                                         *)
(* A u64 word is the set of its one-bits: bit k (value 2^k, k in 0..63)    *)
(* is set iff k is in the set.  The bitwise operators are then set         *)
(* operators and a shift moves the elements and drops those that leave     *)
(* 0..63, which is the truncation of the 64-bit shift.  A Simd<u64, N>     *)
(* and a Vec<u64> are functions from 0-based indices to words.             *)
(***************************************************************************)
EXTENDS Integers, FiniteSets, Sequences, TLC

VARIABLES
    ultimate_engine,  \* the UltimateEngine<N> under test (a record of its fields)
    naive_engine,     \* the NaiveEngine run beside it (grid, next_grid)
    op,               \* the last operation performed, with arguments and result
    fault,            \* "none", or the panic that ended the program
    loaded,           \* the Grid both engines were built from (from_grid)
    generation,       \* generations stepped so far
    calls,            \* set calls since construction or the last set_grid
    combo,            \* rule table: the (center, 8 neighbours) combination drawn
    next_gen          \* rule table: sub_step's output vector, or <<>> before it ran

vars == <<ultimate_engine, naive_engine, op, fault, loaded, generation, calls,
          combo, next_gen>>

----------------------------------------------------------------------------
(* Bounds of the model.                                                    *)

MaxSteps == 3        \* generations stepped in one behaviour
MaxSets == 1         \* set calls since construction or the last set_grid
MaxThreads == 3      \* largest worker count of a pool

(* Program constants.                                                      *)

WordBits == 64       \* cells per u64 word
U32Bits == 32        \* width of step_batch's step count

Bits == 0 .. (WordBits - 1)

Lanes == {1, 2, 4}   \* lane counts N the engine is instantiated with

----------------------------------------------------------------------------
(* u64 and Simd<u64, N> arithmetic.                                        *)

Zero == {}
AllOnes == Bits                                   \* !0u64
Msb == {WordBits - 1}                             \* 0x8000_0000_0000_0000
Lsb == {0}                                        \* 0x1

BitAnd(a, b) == a \cap b
BitOr(a, b) == a \cup b
BitXor(a, b) == (a \ b) \cup (b \ a)
BitNot(a) == Bits \ a
ShlW(a, k) == {i + k : i \in a} \cap Bits         \* a << k on u64, k < 64
ShrW(a, k) == {i - k : i \in a} \cap Bits         \* a >> k on u64, k < 64

(* A vector or Vec given by a rule, as the table of its elements (the same  *)
(* function; TLC then computes each element once).                          *)
Vec(f) == f @@ <<>>

VAnd(v, w) == Vec([l \in DOMAIN v |-> BitAnd(v[l], w[l])])
VOr(v, w) == Vec([l \in DOMAIN v |-> BitOr(v[l], w[l])])
VXor(v, w) == Vec([l \in DOMAIN v |-> BitXor(v[l], w[l])])
VNot(v) == Vec([l \in DOMAIN v |-> BitNot(v[l])])
VShl(v, k) == Vec([l \in DOMAIN v |-> ShlW(v[l], k)])  \* v << Simd::splat(k)
VShr(v, k) == Vec([l \in DOMAIN v |-> ShrW(v[l], k)])  \* v >> Simd::splat(k)

VLen(v) == Cardinality(DOMAIN v)

rotate_elements_left(v) == Vec([l \in DOMAIN v |-> v[(l + 1) % VLen(v)]])
rotate_elements_right(v) == Vec([l \in DOMAIN v |-> v[(l + VLen(v) - 1) % VLen(v)]])

div_ceil(x, y) == (x + y - 1) \div y

Min(a, b) == IF a < b THEN a ELSE b

(* shl that loses the bit carried across lanes.                             *)
shl_without_carry(v) == VShl(v, 1)

(* SIMD shift left by one bit, the vacated low bit of a lane taken from    *)
(* the high bit of the next lane; the last lane's vacated bit is 0.        *)
shl(v) ==
    LET n == VLen(v)
        mask == Vec([l \in DOMAIN v |-> IF l = n - 1 THEN Zero ELSE Lsb])
        neighbouring_bits == VAnd(rotate_elements_left(VShr(v, WordBits - 1)), mask)
    IN  VOr(VShl(v, 1), neighbouring_bits)

(* SIMD shift right by one bit, the vacated high bit of a lane taken from  *)
(* the low bit of the previous lane; the first lane's vacated bit is 0.    *)
shr(v) ==
    LET mask == Vec([l \in DOMAIN v |-> IF l = 0 THEN Zero ELSE Msb])
        neighbouring_bits == VAnd(rotate_elements_right(VShl(v, WordBits - 1)), mask)
    IN  VOr(VShr(v, 1), neighbouring_bits)

(* The full/half adder network over the eight neighbour planes (nbs is     *)
(* 0-based): ab is the ones bit of the count, b3 and b4 the two twos bits,  *)
(* c0 the carry of the twos.                                                *)
Adders(nbs) ==
    LET ta0 == VXor(nbs[0], nbs[1])
        a8 == VXor(ta0, nbs[2])
        b0 == VOr(VAnd(nbs[0], nbs[1]), VAnd(ta0, nbs[2]))
        ta3 == VXor(nbs[3], nbs[4])
        a9 == VXor(ta3, nbs[5])
        b1 == VOr(VAnd(nbs[3], nbs[4]), VAnd(ta3, nbs[5]))
        aa == VXor(nbs[6], nbs[7])
        b2 == VAnd(nbs[6], nbs[7])
        ta8 == VXor(a8, a9)
        tb0 == VXor(b0, b1)
    IN  [ab |-> VXor(ta8, aa),
         b3 |-> VOr(VAnd(a8, a9), VAnd(ta8, aa)),
         b4 |-> VXor(tb0, b2),
         c0 |-> VOr(VAnd(b0, b1), VAnd(tb0, b2))]

(* sub_step that forgets the carry: six and seven neighbours pass for two   *)
(* and three.                                                               *)
sub_step_without_c0(center, nbs) ==
    LET s == Adders(nbs)
    IN  VAnd(VOr(center, s.ab), VXor(s.b3, s.b4))

(* The rule: (center | ab) & (b3 ^ b4) & !c0                                *)
sub_step(center, nbs) ==
    LET s == Adders(nbs)
    IN  VAnd(VAnd(VOr(center, s.ab), VXor(s.b3, s.b4)), VNot(s.c0))

----------------------------------------------------------------------------
(* UltimateEngine<N>.  pool is 0 for None and T >= 1 for Some(pool) with T  *)
(* worker threads.  A Vec<u64> is a function on 0 .. len-1.                 *)

(* global_x of a word-column: the logical x of its first bit.               *)
global_x(col) == IF col = 0 THEN 0 ELSE (col - 1) * WordBits

(* Masks that keep the low bits of the straddling word, not the high ones.  *)
BoundaryMasksLowBits(width, columns) ==
    Vec([col \in 0 .. (columns - 1) |->
        IF global_x(col) >= width THEN Zero
        ELSE IF global_x(col) + WordBits > width
             THEN ShrW(AllOnes, WordBits - (width - global_x(col)))
             ELSE AllOnes])

(* The boundary masks: all ones inside the width, the high bits of the word *)
(* that straddles it, zero beyond.                                          *)
BoundaryMasks(width, columns) ==
    Vec([col \in 0 .. (columns - 1) |->
        IF global_x(col) >= width THEN Zero
        ELSE IF global_x(col) + WordBits > width
             THEN ShlW(AllOnes, WordBits - (width - global_x(col)))
             ELSE AllOnes])

(* vec![0; len]                                                             *)
ZeroField(len) == Vec([i \in 0 .. (len - 1) |-> Zero])

(* new that records the padded height as the logical one.                   *)
NewWithPaddedHeight(width, height, n, pool) ==
    LET columns == div_ceil(div_ceil(width, WordBits), n) * n + 2
        padded_height == height + 2
    IN  [N |-> n,
         pool |-> pool,
         field |-> ZeroField(columns * padded_height),
         new_field |-> ZeroField(columns * padded_height),
         height |-> padded_height,
         columns |-> columns,
         actual_width |-> width,
         actual_height |-> padded_height,
         boundary_masks |-> BoundaryMasks(width, columns),
         boundary_x_start |-> div_ceil(width, WordBits)]

New(width, height, n, pool) ==
    LET columns == div_ceil(div_ceil(width, WordBits), n) * n + 2
        padded_height == height + 2
    IN  [N |-> n,
         pool |-> pool,
         field |-> ZeroField(columns * padded_height),
         new_field |-> ZeroField(columns * padded_height),
         height |-> padded_height,
         columns |-> columns,
         actual_width |-> width,
         actual_height |-> height,
         boundary_masks |-> BoundaryMasks(width, columns),
         boundary_x_start |-> div_ceil(width, WordBits)]

(* The shift that builds a partial mask overflows (a panic) when it is by   *)
(* the whole word.                                                          *)
NewFaults(width, height, n) ==
    LET columns == div_ceil(div_ceil(width, WordBits), n) * n + 2
    IN  \E col \in 0 .. (columns - 1) :
            /\ global_x(col) < width
            /\ global_x(col) + WordBits > width
            /\ WordBits - (width - global_x(col)) >= WordBits

(* The bit of cell x counted from the least significant bit of the word.   *)
CellBitLsbFirst(x) == ShlW(Lsb, x % WordBits)

(* The word and the bit of cell (x, y): MSB first within the word.          *)
CellIndex(e, x, y) == (y + 1) * e.columns + (x \div WordBits + 1)
CellBit(x) == ShrW(Msb, x % WordBits)

(* set whose bounds test is off by one.                                     *)
set_off_by_one(e, x, y) ==
    IF x > e.actual_width \/ y > e.actual_height
    THEN e
    ELSE [e EXCEPT !.field[CellIndex(e, x, y)] = BitOr(@, CellBit(x))]

(* set(x, y): the field after the call; a no-op outside the bounds.         *)
set(e, x, y) ==
    IF x >= e.actual_width \/ y >= e.actual_height
    THEN e
    ELSE [e EXCEPT !.field[CellIndex(e, x, y)] = BitOr(@, CellBit(x))]

(* The index panic of set/get: the word index outside the Vec.              *)
AccessFaults(e, x, y) ==
    /\ ~(x >= e.actual_width \/ y >= e.actual_height)
    /\ CellIndex(e, x, y) \notin DOMAIN e.field

(* get(x, y); get_cell(row, col) is get(col, row).                          *)
get(e, x, y) ==
    IF x >= e.actual_width \/ y >= e.actual_height
    THEN FALSE
    ELSE BitAnd(e.field[CellIndex(e, x, y)], CellBit(x)) # Zero

get_cell(e, row, col) == get(e, col, row)

count_live_cells(e) ==
    Cardinality({c \in (0 .. (e.actual_width - 1)) \X (0 .. (e.actual_height - 1)) :
                    get(e, c[1], c[2])})

(* get_simd on a torus: a read of a padding row takes the opposite edge    *)
(* row of the grid.                                                         *)
get_simd_wrapping(e, i) ==
    LET row == i \div e.columns
        from == IF row = 0 THEN i + e.actual_height * e.columns
                ELSE IF row = e.height - 1 THEN i - e.actual_height * e.columns
                ELSE i
    IN  Vec([l \in 0 .. (e.N - 1) |-> e.field[from + l]])

(* Simd::from_slice(&field[i..i + N])                                       *)
get_simd(e, i) == Vec([l \in 0 .. (e.N - 1) |-> e.field[i + l]])

----------------------------------------------------------------------------
(* step_batch.  The body of the column loop is the same text on the pooled  *)
(* and on the sequential path; the paths differ in how they chop new_field  *)
(* into target slices and how they name the row a slice belongs to.         *)

(* (1..columns).step_by(N): the range run up to the last word-column.       *)
ChunkStartsToLastColumn(e) == {x \in 1 .. (e.columns - 1) : (x - 1) % e.N = 0}

(* (1..columns - 1).step_by(N)                                              *)
ChunkStarts(e) == {x \in 1 .. (e.columns - 2) : (x - 1) % e.N = 0}

(* The neighbour planes as shl and shr leave them, no bit spliced in from   *)
(* the words left and right of the chunk.                                   *)
NeighboursWithoutSplice(e, i) ==
    LET up == get_simd(e, i - e.columns)
        mid == get_simd(e, i)
        down == get_simd(e, i + e.columns)
    IN  Vec([k \in 0 .. 7 |->
            CASE k = 0 -> shr(up)
              [] k = 1 -> up
              [] k = 2 -> shl(up)
              [] k = 3 -> shr(mid)
              [] k = 4 -> shl(mid)
              [] k = 5 -> shr(down)
              [] k = 6 -> down
              [] k = 7 -> shl(down)])

(* The eight neighbour planes of the N words at i, the edge bits spliced in *)
(* from the words left and right of the chunk.                              *)
Neighbours(e, i) ==
    LET columns == e.columns
        n == e.N
        up == get_simd(e, i - columns)
        mid == get_simd(e, i)
        down == get_simd(e, i + columns)
        low(w) == ShlW(BitAnd(w, Lsb), WordBits - 1)     \* (w & 1) << 63
        high(w) == ShrW(BitAnd(w, Msb), WordBits - 1)    \* (w & (1 << 63)) >> 63
    IN  Vec([k \in 0 .. 7 |->
            CASE k = 0 -> [shr(up) EXCEPT ![0] = BitOr(@, low(e.field[i - columns - 1]))]
              [] k = 1 -> up
              [] k = 2 -> [shl(up) EXCEPT ![n - 1] = BitOr(@, high(e.field[i - columns + n]))]
              [] k = 3 -> [shr(mid) EXCEPT ![0] = BitOr(@, low(e.field[i - 1]))]
              [] k = 4 -> [shl(mid) EXCEPT ![n - 1] = BitOr(@, high(e.field[i + n]))]
              [] k = 5 -> [shr(down) EXCEPT ![0] = BitOr(@, low(e.field[i + columns - 1]))]
              [] k = 6 -> down
              [] k = 7 -> [shl(down) EXCEPT ![n - 1] = BitOr(@, high(e.field[i + columns + n]))]])

(* The boundary masking of a chunk's result: only when the chunk starts at  *)
(* or beyond boundary_x_start, lane by lane.                                *)
ApplyMasks(e, x, result) ==
    IF x >= e.boundary_x_start
    THEN Vec([lane \in DOMAIN result |->
            IF x + lane < Cardinality(DOMAIN e.boundary_masks)
            THEN BitAnd(result[lane], e.boundary_masks[x + lane])
            ELSE result[lane]])
    ELSE result

(* The result vector of the chunk starting at word-column x of padded row y *)
ChunkResult(e, y, x) ==
    LET i == y * e.columns + x
    IN  ApplyMasks(e, x, sub_step(get_simd(e, i), Neighbours(e, i)))

(* The interior taken from the first word of new_field: every target slice *)
(* lies one padded row higher.                                              *)
InteriorStartAtRowZero(e) == e.columns - e.columns

(* The interior of new_field: new_field[columns .. columns*height-columns]  *)
InteriorStart(e) == e.columns
InteriorLen(e) == (e.columns * e.height - e.columns) - e.columns

(* A write of a chunk's result into the target slice that starts at         *)
(* absolute index base of new_field: the words at [off + x, off + x + N).   *)
(* Each is <<absolute index, y, x, lane>>.                                  *)
RowWrites(e, base, off, y) ==
    {<<base + off + x + lane, y, x, lane>> : x \in ChunkStarts(e), lane \in 0 .. (e.N - 1)}

(* chunks_mut whose slices run one row into the next slice.                 *)
ChunksMutOverlapping(e, size) ==
    {<<i, InteriorStart(e) + i * size, Min(size + e.columns, InteriorLen(e) - i * size)>> :
        i \in 0 .. (div_ceil(InteriorLen(e), size) - 1)}

(* chunks_mut(size) of the interior: the i-th slice is <<i, start, len>>.   *)
ChunksMut(e, size) ==
    {<<i, InteriorStart(e) + i * size, Min(size, InteriorLen(e) - i * size)>> :
        i \in 0 .. (div_ceil(InteriorLen(e), size) - 1)}

(* The chunk size by floor division.                                        *)
chunk_size_floor(e) == (e.height - 2) \div e.pool

(* Pooled path: the chunk size of the row partition.                        *)
chunk_size(e) == ((e.height - 2) + e.pool - 1) \div e.pool

(* chunks_mut panics on a chunk size of zero.                               *)
PooledFaults(e) == chunk_size(e) * e.columns = 0

(* Pooled path: every task's writes.  Task i owns slice i and, for local    *)
(* row yl, reads padded row y = yl + i * chunk_size + 1.                    *)
PooledWrites(e) ==
    UNION {UNION {RowWrites(e, t[2], yl * e.columns, yl + t[1] * chunk_size(e) + 1) :
                    yl \in 0 .. (t[3] \div e.columns - 1)} :
            t \in ChunksMut(e, chunk_size(e) * e.columns)}

(* Sequential path: one slice per row, slice i is padded row i + 1.         *)
SequentialWrites(e) ==
    UNION {RowWrites(e, t[2], 0, t[1] + 1) : t \in ChunksMut(e, e.columns)}

(* The writes ORed into the words of new_field, not stored over them.       *)
GenerationAccumulating(e, writes) ==
    LET results == Vec([c \in {<<w[2], w[3]>> : w \in writes} |-> ChunkResult(e, c[1], c[2])])
        written ==
            Vec([k \in DOMAIN e.new_field |->
                BitOr(e.new_field[k],
                      UNION {results[<<w[2], w[3]>>][w[4]] : w \in {v \in writes : v[1] = k}})])
    IN  [e EXCEPT !.field = written, !.new_field = e.field]

(* new_field after the writes, then swap(field, new_field).  Each chunk's   *)
(* result vector is computed once and copied lane by lane.                  *)
Generation(e, writes) ==
    LET results == Vec([c \in {<<w[2], w[3]>> : w \in writes} |-> ChunkResult(e, c[1], c[2])])
        target == Vec([w \in writes |-> results[<<w[2], w[3]>>][w[4]]])
        written ==
            Vec([k \in DOMAIN e.new_field |->
                LET hit == {w \in writes : w[1] = k}
                IN  IF hit = {} THEN e.new_field[k]
                    ELSE target[CHOOSE w \in hit : TRUE]])
    IN  [e EXCEPT !.field = written, !.new_field = e.field]

(* A write outside new_field is an index panic.                             *)
WritesFault(e, writes) == \E w \in writes : w[1] \notin DOMAIN e.new_field

(* One iteration of step_batch's loop.                                      *)
StepFaults(e) ==
    IF e.pool # 0
    THEN PooledFaults(e) \/ (~PooledFaults(e) /\ WritesFault(e, PooledWrites(e)))
    ELSE WritesFault(e, SequentialWrites(e))

StepOnce(e) ==
    IF e.pool # 0
    THEN Generation(e, PooledWrites(e))
    ELSE Generation(e, SequentialWrites(e))

(* step_batch(steps): the loop; a panic leaves the engine as the iteration  *)
(* found it.  The result is <<engine, faulted>>.                            *)
RECURSIVE step_batch(_, _)
step_batch(e, steps) ==
    IF steps = 0 THEN <<e, FALSE>>
    ELSE IF StepFaults(e) THEN <<e, TRUE>>
    ELSE step_batch(StepOnce(e), steps - 1)

----------------------------------------------------------------------------
(* StandardGrid (one bool per cell) and the Grid trait's defaults.          *)

(* cells, a Vec<bool> of width * height entries, is the set of the indices  *)
(* that hold true.                                                          *)
StandardGridNew(width, height) ==
    [width |-> width, height |-> height, cells |-> {}]

index(g, row, col) == row * g.width + col

(* The assert! of get_cell / set_cell.                                      *)
InBounds(g, row, col) == row < g.height /\ col < g.width

grid_get_cell(g, row, col) == index(g, row, col) \in g.cells

grid_set_cell(g, row, col, alive) ==
    [g EXCEPT !.cells = IF alive THEN @ \cup {index(g, row, col)}
                                 ELSE @ \ {index(g, row, col)}]

(* The count without the skip of dr = dc = 0: the cell counts itself.        *)
count_neighbors_with_self(g, row, col) ==
    Cardinality({d \in {-1, 0, 1} \X {-1, 0, 1} :
        /\ row + d[1] >= 0 /\ row + d[1] < g.height
        /\ col + d[2] >= 0 /\ col + d[2] < g.width
        /\ grid_get_cell(g, row + d[1], col + d[2])})

count_neighbors(g, row, col) ==
    Cardinality({d \in {-1, 0, 1} \X {-1, 0, 1} :
        /\ ~(d[1] = 0 /\ d[2] = 0)
        /\ row + d[1] >= 0 /\ row + d[1] < g.height
        /\ col + d[2] >= 0 /\ col + d[2] < g.width
        /\ grid_get_cell(g, row + d[1], col + d[2])})

grid_count_live_cells(g) ==
    Cardinality({c \in (0 .. (g.height - 1)) \X (0 .. (g.width - 1)) :
                    grid_get_cell(g, c[1], c[2])})

----------------------------------------------------------------------------
(* NaiveEngine.                                                             *)

NaiveNew(width, height) ==
    [grid |-> StandardGridNew(width, height),
     next_grid |-> StandardGridNew(width, height)]

(* set_cell(row, col, v) for every <<row, col>> of cells, v being true for  *)
(* the cells of alive and false for the others.                             *)
SetCells(g, cells, alive) ==
    [g EXCEPT !.cells = (@ \ {index(g, c[1], c[2]) : c \in cells})
                        \cup {index(g, c[1], c[2]) : c \in cells \cap alive}]

NaiveFromGrid(g) ==
    LET cells == (0 .. (g.height - 1)) \X (0 .. (g.width - 1))
    IN  [grid |-> SetCells(StandardGridNew(g.width, g.height), cells,
                           {c \in cells : grid_get_cell(g, c[1], c[2])}),
         next_grid |-> StandardGridNew(g.width, g.height)]

(* Conway's rule of update_safe's match.                                    *)
Rule(current_cell, neighbors) ==
    \/ (current_cell /\ neighbors = 2)
    \/ (current_cell /\ neighbors = 3)
    \/ (~current_cell /\ neighbors = 3)

update_safe(ne) ==
    LET width == ne.grid.width
        height == ne.grid.height
        cells == {<<idx \div width, idx % width>> : idx \in 0 .. (height * width - 1)}
        new_cells == {c \in cells : Rule(grid_get_cell(ne.grid, c[1], c[2]),
                                         count_neighbors(ne.grid, c[1], c[2]))}
    IN  [grid |-> SetCells(ne.next_grid, cells, new_cells), next_grid |-> ne.grid]

(* next_grid.set_cell asserts its coordinates.                              *)
UpdateFaults(ne) ==
    \E idx \in 0 .. (ne.grid.height * ne.grid.width - 1) :
        ~InBounds(ne.next_grid, idx \div ne.grid.width, idx % ne.grid.width)

----------------------------------------------------------------------------
(* UltimateEngine: set_grid and from_grid.                                  *)

(* set_grid that walks the engine's cells, not the clamped ones.            *)
SetGridReadsEngine(e, g) ==
    (0 .. (e.actual_height - 1)) \X (0 .. (e.actual_width - 1))

(* The cells of g that set_grid reads, as <<row, col>>.                     *)
SetGridReads(e, g) ==
    (0 .. (Min(g.height, e.actual_height) - 1)) \X (0 .. (Min(g.width, e.actual_width) - 1))

(* g.get_cell asserts its coordinates.                                      *)
SetGridFaults(e, g) == \E c \in SetGridReads(e, g) : ~InBounds(g, c[1], c[2])

(* fill(0) of both fields, then set(col, row) for every live cell read.     *)
(* Each set ORs one bit into the cleared field, so the field after the loop *)
(* is the OR of the fields the single calls leave.                          *)
set_grid(e, g) ==
    LET cleared == [e EXCEPT !.field = Vec([i \in DOMAIN @ |-> Zero]),
                             !.new_field = Vec([i \in DOMAIN @ |-> Zero])]
        live == {c \in SetGridReads(e, g) : grid_get_cell(g, c[1], c[2])}
        fields == {set(cleared, c[2], c[1]).field : c \in live}
    IN  [cleared EXCEPT !.field = Vec([i \in DOMAIN @ |-> UNION {f[i] : f \in fields}])]

from_grid(g, n, pool) == set_grid(New(g.width, g.height, n, pool), g)

----------------------------------------------------------------------------
(* Rule table: sub_step on all 512 combinations.  Lane l, bit p of the      *)
(* input planes holds combination ComboAt(combo, l, p), a different one at  *)
(* every position, so that a position that leaked into another would show.  *)

Combos == 0 .. 511

BitOf(c, k) == (c \div (2 ^ k)) % 2

ComboAt(c, l, p) == (c + 37 * (WordBits * l + p)) % 512

(* Plane k of the input (k = 8 is the center), as a vector of n words.      *)
Plane(c, n, k) ==
    Vec([l \in 0 .. (n - 1) |-> {p \in Bits : BitOf(ComboAt(c, l, p), k) = 1}])

NeighbourCount(c) == BitOf(c, 0) + BitOf(c, 1) + BitOf(c, 2) + BitOf(c, 3)
                     + BitOf(c, 4) + BitOf(c, 5) + BitOf(c, 6) + BitOf(c, 7)

Idle == [name |-> "idle"]

RuleInit ==
    /\ combo \in [c : Combos, n : Lanes]
    /\ next_gen = <<>>
    /\ ultimate_engine = Idle
    /\ naive_engine = Idle
    /\ op = [name |-> "drawn"]
    /\ fault = "none"
    /\ loaded = Idle
    /\ generation = 0
    /\ calls = 0

ApplySubStep ==
    /\ op.name = "drawn"
    /\ next_gen' = sub_step(Plane(combo.c, combo.n, 8),
                            [k \in 0 .. 7 |-> Plane(combo.c, combo.n, k)])
    /\ op' = [name |-> "sub_step"]
    /\ UNCHANGED <<ultimate_engine, naive_engine, fault, loaded, generation, calls, combo>>

RuleNext == ApplySubStep

SpecRule == RuleInit /\ [][RuleNext]_vars

(* C2: for all 512 combinations of a center bit and eight neighbour bits,   *)
(* the output bit of sub_step equals (neighbourCount = 3) \/ (center /\     *)
(* neighbourCount = 2), at every bit position of every lane.                *)
C2_RuleTable ==
    op.name = "sub_step" =>
        \A l \in 0 .. (combo.n - 1) : \A p \in Bits :
            (p \in next_gen[l]) <=>
                LET c == ComboAt(combo.c, l, p)
                IN  \/ NeighbourCount(c) = 3
                    \/ (BitOf(c, 8) = 1 /\ NeighbourCount(c) = 2)

(* C2 witness: sub_step ran on a live center with exactly two neighbours    *)
(* at bit 0 of lane 0 and kept it alive.                                    *)
C2_Witness ==
    /\ op.name = "sub_step"
    /\ BitOf(combo.c, 8) = 1 /\ NeighbourCount(combo.c) = 2
    /\ 0 \in next_gen[0]

----------------------------------------------------------------------------
(* Both engines built from one grid and stepped side by side, as            *)
(* test_engine_equivalence does.                                            *)

(* The engine runs without a pool or with the largest one.                  *)
EquivPools == {0, MaxThreads}

(* The grid of the given size whose live cells are the <<row, col>> of live *)
GridOf(width, height, live) ==
    [width |-> width, height |-> height,
     cells |-> {c[1] * width + c[2] : c \in live}]

Single(r, c) == {<<r, c>>}
HLine(r, c) == {<<r, c>>, <<r, c + 1>>, <<r, c + 2>>}
VLine(r, c) == {<<r, c>>, <<r + 1, c>>, <<r + 2, c>>}
Block(r, c) == {<<r, c>>, <<r, c + 1>>, <<r + 1, c>>, <<r + 1, c + 1>>}

Fits(live, width, height) == \A c \in live : c[1] < height /\ c[2] < width

(* Columns a shape is anchored at: every column of a small grid; in a wide  *)
(* one the left edge, the word boundary, the boundary of a 2-word chunk and *)
(* the right edge.                                                          *)
AnchorCols(width) ==
    IF width <= 8 THEN 0 .. (width - 1)
    ELSE {c \in {0, WordBits - 2, WordBits - 1, 2 * WordBits - 2, 2 * WordBits - 1,
                 width - 3, width - 2, width - 1} : c < width}

Shapes(width, height) ==
    {live \in UNION {{Single(r, c), HLine(r, c), VLine(r, c), Block(r, c)} :
                        r \in 0 .. (height - 1), c \in AnchorCols(width)} :
        Fits(live, width, height)}

(* The pattern of test_engine_equivalence (5x5, two lines).                 *)
TwoLines == HLine(1, 1) \cup HLine(3, 1)

Patterns(width, height) ==
    Shapes(width, height) \cup {{}} \cup {live \in {TwoLines} : Fits(live, width, height)}

EquivDims == {<<3, 3>>, <<5, 5>>, <<200, 3>>}

EquivInit ==
    /\ \E d \in EquivDims, n \in Lanes, pool \in EquivPools :
        \E live \in Patterns(d[1], d[2]) :
            /\ loaded = GridOf(d[1], d[2], live)
            /\ ultimate_engine = from_grid(loaded, n, pool)
            /\ naive_engine = NaiveFromGrid(loaded)
    /\ op = [name |-> "from_grid"]
    /\ fault = "none"
    /\ generation = 0
    /\ calls = 0
    /\ combo = Idle
    /\ next_gen = <<>>

(* naive_engine.step(); ultimate_engine.step();                             *)
StepBoth ==
    /\ fault = "none"
    /\ generation < MaxSteps
    /\ IF UpdateFaults(naive_engine) \/ StepFaults(ultimate_engine)
       THEN /\ fault' = "panic"
            /\ UNCHANGED <<ultimate_engine, naive_engine, generation>>
       ELSE /\ naive_engine' = update_safe(naive_engine)
            /\ ultimate_engine' = step_batch(ultimate_engine, 1)[1]
            /\ generation' = generation + 1
            /\ fault' = "none"
    /\ op' = [name |-> "step"]
    /\ UNCHANGED <<loaded, calls, combo, next_gen>>

EquivNext == StepBoth

SpecEquiv == EquivInit /\ [][EquivNext]_vars

(* C1: after each step both engines report the same count_live_cells() and  *)
(* the same get_cell(row, col) for every in-bounds cell.                    *)
C1_EnginesAgree ==
    /\ fault = "none"
    /\ grid_count_live_cells(naive_engine.grid) = count_live_cells(ultimate_engine)
    /\ \A row \in 0 .. (naive_engine.grid.height - 1) :
         \A col \in 0 .. (naive_engine.grid.width - 1) :
            grid_get_cell(naive_engine.grid, row, col) = get_cell(ultimate_engine, row, col)

(* The live cells each engine reports, as <<row, col>>.                     *)
LiveUltimate(e) ==
    {c \in (0 .. (e.actual_height - 1)) \X (0 .. (e.actual_width - 1)) :
        get_cell(e, c[1], c[2])}

LiveNaive(ne) ==
    {c \in (0 .. (ne.grid.height - 1)) \X (0 .. (ne.grid.width - 1)) :
        grid_get_cell(ne.grid, c[1], c[2])}

LoadedLive == {<<idx \div loaded.width, idx % loaded.width>> : idx \in loaded.cells}

(* The engine with one logical row, or one logical column, of cells dead.   *)
ClearRow(e, row) ==
    [e EXCEPT !.field = Vec([i \in DOMAIN @ |->
        IF i \div e.columns = row + 1 THEN Zero ELSE @[i]])]

ClearCol(e, col) ==
    [e EXCEPT !.field = Vec([i \in DOMAIN @ |->
        IF i % e.columns = col \div WordBits + 1 THEN @[i] \ CellBit(col) ELSE @[i]])]

(* The neighbour count the step computes for cell (x, y): the number of the *)
(* eight neighbour planes that hold the cell's bit.                         *)
NbCount(e, x, y) ==
    LET column == x \div WordBits + 1
        start == column - ((column - 1) % e.N)
        planes == Neighbours(e, (y + 1) * e.columns + start)
    IN  Cardinality({k \in 0 .. 7 : BitAnd(planes[k][column - start], CellBit(x)) # Zero})

(* C5: no wraparound.  A single live cell at corner (0,0) is dead after one *)
(* step and no cell is born; in a grid whose opposite edges are not         *)
(* adjacent (width, height >= 3) the neighbour count of a cell of one edge  *)
(* row (column) is the same whatever the opposite edge row (column) holds.  *)
C5_NoWraparound ==
    LET e == ultimate_engine
        w == e.actual_width
        h == e.actual_height
    IN  /\ (LoadedLive = Single(0, 0) /\ generation >= 1) =>
              (fault = "none" /\ LiveUltimate(e) = {} /\ count_live_cells(e) = 0)
        /\ (h >= 3 /\ w >= 3) =>
              /\ \A x \in AnchorCols(w) :
                    /\ NbCount(e, x, h - 1) = NbCount(ClearRow(e, 0), x, h - 1)
                    /\ NbCount(e, x, 0) = NbCount(ClearRow(e, h - 1), x, 0)
              /\ \A y \in 0 .. (h - 1) :
                    /\ NbCount(e, w - 1, y) = NbCount(ClearCol(e, 0), w - 1, y)
                    /\ NbCount(e, 0, y) = NbCount(ClearCol(e, w - 1), 0, y)

(* C5 witness: the lone corner cell has been stepped away.                  *)
C5_Witness ==
    /\ LoadedLive = Single(0, 0)
    /\ generation = 1
    /\ ultimate_engine.actual_width = 200
    /\ count_live_cells(ultimate_engine) = 0

(* The loaded pattern is a horizontal line of three whose vertical          *)
(* counterpart through the middle cell fits in the grid.                    *)
IsBlinker(r, c) ==
    /\ LoadedLive = HLine(r, c)
    /\ r >= 1
    /\ Fits(VLine(r - 1, c + 1), loaded.width, loaded.height)

(* C8: such a line is the vertical line after every odd number of steps     *)
(* and the horizontal line after every even number, on both engines, with   *)
(* three live cells throughout.                                             *)
C8_Blinker ==
    \A a \in LoadedLive :
        IsBlinker(a[1], a[2]) =>
            LET r == a[1]
                c == a[2]
                expected == IF generation % 2 = 1 THEN VLine(r - 1, c + 1) ELSE HLine(r, c)
            IN  /\ fault = "none"
                /\ LiveUltimate(ultimate_engine) = expected
                /\ LiveNaive(naive_engine) = expected
                /\ count_live_cells(ultimate_engine) = 3
                /\ grid_count_live_cells(naive_engine.grid) = 3

(* C8 witness: a blinker across the word boundary is back after two steps.  *)
C8_Witness ==
    /\ IsBlinker(1, WordBits - 2)
    /\ generation = 2
    /\ LiveUltimate(ultimate_engine) = HLine(1, WordBits - 2)

(* C9: a 2x2 block is a fixed point: the same four cells live after any     *)
(* number of steps, on both engines, wherever the block lies.               *)
C9_Block ==
    \A a \in LoadedLive :
        LoadedLive = Block(a[1], a[2]) =>
            /\ fault = "none"
            /\ LiveUltimate(ultimate_engine) = Block(a[1], a[2])
            /\ LiveNaive(naive_engine) = Block(a[1], a[2])
            /\ count_live_cells(ultimate_engine) = 4
            /\ grid_count_live_cells(naive_engine.grid) = 4

(* C9 witness: a block against the right edge of the wide grid, and one     *)
(* across the word boundary, after the last step.                           *)
C9_Witness ==
    /\ generation = MaxSteps
    /\ \/ LoadedLive = Block(0, WordBits - 1)
       \/ LoadedLive = Block(1, loaded.width - 2)
    /\ loaded.width > WordBits
    /\ count_live_cells(ultimate_engine) = 4

----------------------------------------------------------------------------
(* The engine's programmatic surface: new, set, get, set_grid, step and     *)
(* run_steps called in any order.                                           *)

Dims == {<<0, 0>>, <<0, 2>>, <<3, 0>>, <<3, 3>>, <<65, 1>>}

(* Lane counts of the engines driven through the surface.                   *)
ApiLanes == {1, 4}

(* Cells passed to set and get, as <<x, y>>: two opposite corners of the    *)
(* grid, and cells beyond the width, beyond the height and beyond both      *)
(* (those are out of bounds whatever the size).                             *)
CellArgs(e) ==
    LET w == e.actual_width
        h == e.actual_height
    IN  {c \in {<<0, 0>>, <<w - 1, h - 1>>} : c[1] >= 0 /\ c[2] >= 0}
        \cup {<<w, 0>>, <<0, h>>, <<w + WordBits, h + 1>>}

Full(width, height) ==
    GridOf(width, height, (0 .. (height - 1)) \X (0 .. (width - 1)))

(* Grids passed to set_grid: smaller, equal and larger than the engines.    *)
GridArgs ==
    {GridOf(0, 0, {}), Full(2, 2), GridOf(3, 3, HLine(1, 0)), Full(4, 5),
     GridOf(66, 2, HLine(0, WordBits - 2))}

(* A usize step count hi * 2^32 + lo, lo < 2^32.                            *)
UsizeArgs == [hi : {0, 1}, lo : {0, 2}]

(* steps as u32: the low 32 bits.                                           *)
AsU32(n) == n.lo

Init ==
    /\ \E d \in Dims, n \in ApiLanes, pool \in EquivPools :
        /\ ultimate_engine = New(d[1], d[2], n, pool)
        /\ naive_engine = NaiveNew(d[1], d[2])
        /\ op = [name |-> "new", width |-> d[1], height |-> d[2]]
        /\ fault = IF NewFaults(d[1], d[2], n) THEN "panic" ELSE "none"
    /\ loaded = Idle
    /\ generation = 0
    /\ calls = 0
    /\ combo = Idle
    /\ next_gen = <<>>

Set(x, y) ==
    /\ fault = "none"
    /\ calls < MaxSets
    /\ calls' = calls + 1
    /\ op' = [name |-> "set", x |-> x, y |-> y]
    /\ IF AccessFaults(ultimate_engine, x, y)
       THEN fault' = "panic" /\ UNCHANGED ultimate_engine
       ELSE fault' = "none" /\ ultimate_engine' = set(ultimate_engine, x, y)
    /\ UNCHANGED <<naive_engine, loaded, generation, combo, next_gen>>

Get(x, y) ==
    /\ fault = "none"
    /\ IF AccessFaults(ultimate_engine, x, y)
       THEN fault' = "panic" /\ op' = [name |-> "get", x |-> x, y |-> y, result |-> FALSE]
       ELSE /\ fault' = "none"
            /\ op' = [name |-> "get", x |-> x, y |-> y,
                      result |-> get(ultimate_engine, x, y)]
    /\ UNCHANGED <<ultimate_engine, naive_engine, loaded, generation, calls, combo, next_gen>>

SetGrid(g) ==
    /\ fault = "none"
    /\ calls' = 0
    /\ op' = [name |-> "set_grid", grid |-> g,
              stale |-> \E i \in DOMAIN ultimate_engine.new_field :
                            ultimate_engine.new_field[i] # Zero]
    /\ IF SetGridFaults(ultimate_engine, g)
       THEN fault' = "panic" /\ UNCHANGED ultimate_engine
       ELSE fault' = "none" /\ ultimate_engine' = set_grid(ultimate_engine, g)
    /\ UNCHANGED <<naive_engine, loaded, generation, combo, next_gen>>

(* step(): step_batch(1).  The fields of a bounded grid cycle, so the       *)
(* generations need no bound here.                                          *)
Step ==
    /\ fault = "none"
    /\ op' = [name |-> "step"]
    /\ LET r == step_batch(ultimate_engine, 1)
       IN  /\ ultimate_engine' = r[1]
           /\ fault' = IF r[2] THEN "panic" ELSE "none"
    /\ UNCHANGED <<naive_engine, loaded, generation, calls, combo, next_gen>>

(* run_steps(steps): step_batch(steps as u32)                               *)
RunSteps(n) ==
    /\ fault = "none"
    /\ op' = [name |-> "run_steps", n |-> n]
    /\ LET r == step_batch(ultimate_engine, AsU32(n))
       IN  /\ ultimate_engine' = r[1]
           /\ fault' = IF r[2] THEN "panic" ELSE "none"
    /\ UNCHANGED <<naive_engine, loaded, generation, calls, combo, next_gen>>

Next ==
    \/ \E c \in CellArgs(ultimate_engine) : Set(c[1], c[2])
    \/ \E c \in CellArgs(ultimate_engine) : Get(c[1], c[2])
    \/ \E g \in GridArgs : SetGrid(g)
    \/ Step
    \/ \E n \in UsizeArgs : RunSteps(n)

Spec == Init /\ [][Next]_vars

(* One generation from e on the pooled path with T workers and on the      *)
(* sequential path end alike: both panic or neither does, and they leave    *)
(* the same field and the same new_field.                                   *)
SamePaths(e, T) ==
    LET pooled == step_batch([e EXCEPT !.pool = T], 1)
        sequential == step_batch([e EXCEPT !.pool = 0], 1)
    IN  /\ pooled[2] = sequential[2]
        /\ pooled[1].field = sequential[1].field
        /\ pooled[1].new_field = sequential[1].new_field

(* C3: for any grid size and from every reachable state, step_batch on the  *)
(* pooled path with any worker count T >= 1 ends as it does on the          *)
(* sequential path, with bit-identical fields.                              *)
C3_PathsAgree ==
    fault = "none" => \A T \in 1 .. MaxThreads : SamePaths(ultimate_engine, T)

(* The same for the grids that have at least one row.                       *)
C3_PathsAgreeOnRows ==
    (fault = "none" /\ ultimate_engine.actual_height >= 1) =>
        \A T \in 1 .. MaxThreads : SamePaths(ultimate_engine, T)

(* n successive step() calls, n small: <<engine, faulted>>.                 *)
RECURSIVE StepCalls(_, _)
StepCalls(e, k) ==
    IF k = 0 THEN <<e, FALSE>>
    ELSE LET r == step_batch(e, 1)
         IN  IF r[2] THEN r ELSE StepCalls(r[1], k - 1)

(* The engine states of successive step() calls up to the first repetition  *)
(* or panic: seen[j] is the state after j - 1 calls; back is the index of   *)
(* the state the next call returns to, or 0 when that call panics.          *)
RECURSIVE Orbit(_)
Orbit(seen) ==
    LET r == step_batch(seen[Len(seen)], 1)
    IN  IF r[2] THEN [seen |-> seen, back |-> 0]
        ELSE IF \E j \in 1 .. Len(seen) : seen[j] = r[1]
             THEN [seen |-> seen, back |-> CHOOSE j \in 1 .. Len(seen) : seen[j] = r[1]]
             ELSE Orbit(Append(seen, r[1]))

(* 2^32 mod m, from 2^16 mod m.                                             *)
TwoTo32Mod(m) == (((2 ^ (U32Bits \div 2)) % m) * ((2 ^ (U32Bits \div 2)) % m)) % m

(* n = hi * 2^32 + lo successive step() calls: <<engine, faulted>>.  Past   *)
(* the first repetition the states cycle with period Len(seen) - back + 1.  *)
AfterStepCalls(e, n) ==
    IF n.hi = 0 THEN StepCalls(e, n.lo)
    ELSE LET o == Orbit(<<e>>)
             len == Len(o.seen)
             period == len - o.back + 1
             ahead == (n.hi * TwoTo32Mod(period) + n.lo + period * len - (o.back - 1)) % period
         IN  IF o.back = 0 THEN <<o.seen[len], TRUE>>
             ELSE <<o.seen[o.back + ahead], FALSE>>

(* C4: run_steps(n) leaves the engine in the state n successive step()      *)
(* calls leave it in, for every usize n.                                    *)
C4_RunStepsIsNSteps ==
    [][op'.name = "run_steps" =>
          ultimate_engine' = AfterStepCalls(ultimate_engine, op'.n)[1]]_vars

(* C6: get and set outside the bounds: get returns false, set changes       *)
(* neither field, and neither faults, in any reachable state.               *)
C6_OutOfRange ==
    [][(/\ op'.name \in {"set", "get"}
        /\ (op'.x >= ultimate_engine.actual_width \/ op'.y >= ultimate_engine.actual_height))
       => /\ fault' = "none"
          /\ ultimate_engine' = ultimate_engine
          /\ (op'.name = "get" => op'.result = FALSE)]_vars

(* C6 witness: set was called beyond the width of an engine holding live    *)
(* cells.                                                                   *)
C6_Witness ==
    /\ op.name = "set"
    /\ op.x >= ultimate_engine.actual_width
    /\ ultimate_engine.actual_width > 0
    /\ fault = "none"
    /\ count_live_cells(ultimate_engine) > 0

(* C7: new(width, height) does not fault, for zero sizes too; the engine    *)
(* reports the given width and height, no live cell, every cell dead.       *)
C7_NewIsEmpty ==
    op.name = "new" =>
        /\ fault = "none"
        /\ ultimate_engine.actual_width = op.width
        /\ ultimate_engine.actual_height = op.height
        /\ count_live_cells(ultimate_engine) = 0
        /\ LiveUltimate(ultimate_engine) = {}
        /\ naive_engine.grid.width = op.width
        /\ naive_engine.grid.height = op.height
        /\ grid_count_live_cells(naive_engine.grid) = 0

(* C7 witness: an engine of width 0 was built.                              *)
C7_Witness ==
    /\ op.name = "new"
    /\ op.width = 0
    /\ op.height > 0
    /\ fault = "none"

(* C10: after set_grid(g) the cells inside both g and the engine are g's,   *)
(* every other cell is dead, both fields hold nothing else, and g was read  *)
(* inside its bounds only.                                                  *)
C10_SetGrid ==
    op.name = "set_grid" =>
        LET e == ultimate_engine
            g == op.grid
            rows == 0 .. (Min(g.height, e.actual_height) - 1)
            cols == 0 .. (Min(g.width, e.actual_width) - 1)
            copied == {c \in rows \X cols : grid_get_cell(g, c[1], c[2])}
        IN  /\ fault = "none"
            /\ LiveUltimate(e) = copied
            /\ \A i \in DOMAIN e.field :
                  e.field[i] = UNION {CellBit(c[2]) : c \in {d \in copied : CellIndex(e, d[2], d[1]) = i}}
            /\ \A i \in DOMAIN e.new_field : e.new_field[i] = Zero
            /\ \A c \in SetGridReads(e, g) : InBounds(g, c[1], c[2])

(* C10 witness: a grid wider and higher than the engine was loaded over a   *)
(* stepped engine (its shadow field held cells) and left live cells.        *)
C10_Witness ==
    /\ op.name = "set_grid"
    /\ op.stale
    /\ op.grid.width > ultimate_engine.actual_width
    /\ op.grid.height > ultimate_engine.actual_height
    /\ count_live_cells(ultimate_engine) > 0

----------------------------------------------------------------------------
(* performance_stats.  bits_per_cell is the f64 literal 1.0, held as the    *)
(* pair <<1, 0>> of its integer and fractional parts.                       *)

BytesPerWord == 8    \* the "* 8" of memory_usage_bytes: bytes of a u64

(* performance_stats that counts one field only.                            *)
performance_stats_one_field(e) ==
    [memory_usage_bytes |-> VLen(e.field) * BytesPerWord,
     bits_per_cell |-> <<1, 0>>,
     simd_enabled |-> TRUE,
     simd_width |-> e.N,
     parallel_columns |-> e.columns]

performance_stats(e) ==
    [memory_usage_bytes |-> (VLen(e.field) + VLen(e.new_field)) * BytesPerWord,
     bits_per_cell |-> <<1, 0>>,
     simd_enabled |-> TRUE,
     simd_width |-> e.N,
     parallel_columns |-> e.columns]

(* C11: in every reachable state of an engine built with new(W, H) (W and   *)
(* H are kept by the NaiveEngine built beside it, which no operation        *)
(* touches), performance_stats() reports parallel_columns =                 *)
(* ceil(ceil(W/64)/N)*N + 2, memory_usage_bytes = 2 * parallel_columns *    *)
(* (H+2) * 8, simd_width = N and bits_per_cell = 1.0, whatever set,         *)
(* set_grid and step have done since.                                       *)
C11_PerformanceStats ==
    LET W == naive_engine.grid.width
        H == naive_engine.grid.height
        stats == performance_stats(ultimate_engine)
        cols == div_ceil(div_ceil(W, WordBits), ultimate_engine.N) * ultimate_engine.N + 2
    IN  /\ stats.parallel_columns = cols
        /\ stats.memory_usage_bytes = 2 * cols * (H + 2) * 8
        /\ stats.simd_width = ultimate_engine.N
        /\ stats.bits_per_cell = <<1, 0>>

(* C11 witness: a 65-wide engine of four lanes holds live cells after a     *)
(* step that followed a set_grid or a set.                                  *)
C11_Witness ==
    /\ op.name = "step"
    /\ naive_engine.grid.width = 65
    /\ ultimate_engine.N = 4
    /\ count_live_cells(ultimate_engine) > 0
    /\ performance_stats(ultimate_engine).memory_usage_bytes = 2 * 6 * 3 * 8

----------------------------------------------------------------------------
(* Construction under an environment that may lack threads or fail inside   *)
(* new.  env.wasm is cfg!(target_arch = "wasm32"); env.parallelism is what  *)
(* available_parallelism() reports (0 for Err); env.build_ok is whether     *)
(* ThreadPoolBuilder::build() returns Ok; env.new_panics is whether         *)
(* UltimateEngine::new unwinds (a capacity or arithmetic overflow).         *)

DefaultThreads == 2  \* unwrap_or(2)

AutoLanes == 4       \* UltimateEngine::<4> of the auto constructors

Envs ==
    [wasm : BOOLEAN, parallelism : {0, 1, MaxThreads}, build_ok : BOOLEAN,
     new_panics : BOOLEAN]

(* The pool of new: None (0) on wasm32 and when build() fails.              *)
BuildPool(env) ==
    IF env.wasm THEN 0
    ELSE LET threads == IF env.parallelism = 0 THEN DefaultThreads ELSE env.parallelism
         IN  IF env.build_ok THEN threads ELSE 0

(* UltimateEngine::<N>::new(width, height) in env: <<engine, panicked>>.    *)
NewIn(width, height, n, env) ==
    IF env.new_panics \/ NewFaults(width, height, n)
    THEN <<Idle, TRUE>>
    ELSE <<New(width, height, n, BuildPool(env)), FALSE>>

simd_supported == TRUE

(* safe_auto_new_ultimate_engine without catch_unwind.                      *)
safe_auto_new_uncaught(width, height, env) ==
    IF simd_supported
    THEN LET r == NewIn(width, height, AutoLanes, env)
         IN  [ultimate |-> r[1], naive |-> Idle, panicked |-> r[2]]
    ELSE [ultimate |-> Idle, naive |-> NaiveNew(width, height), panicked |-> FALSE]

(* The Box<dyn GameOfLifeEngine> returned: the UltimateEngine<4>, or the    *)
(* NaiveEngine when new unwound or SIMD is not supported.                   *)
safe_auto_new_ultimate_engine(width, height, env) ==
    IF simd_supported
    THEN LET r == NewIn(width, height, AutoLanes, env)
         IN  IF r[2]
             THEN [ultimate |-> Idle, naive |-> NaiveNew(width, height), panicked |-> FALSE]
             ELSE [ultimate |-> r[1], naive |-> Idle, panicked |-> FALSE]
    ELSE [ultimate |-> Idle, naive |-> NaiveNew(width, height), panicked |-> FALSE]

(* NaiveEngine::set_grid: new grids when the size differs, else clear();    *)
(* then every cell of g is copied.                                          *)
naive_set_grid(ne, g) ==
    LET base == IF ne.grid.width # g.width \/ ne.grid.height # g.height
                THEN NaiveNew(g.width, g.height)
                ELSE [ne EXCEPT !.grid.cells = {}]
        cells == (0 .. (g.height - 1)) \X (0 .. (g.width - 1))
    IN  [base EXCEPT !.grid = SetCells(base.grid, cells,
                                       {c \in cells : grid_get_cell(g, c[1], c[2])})]

BuildInit ==
    /\ \E d \in Dims, env \in Envs, how \in {"new", "safe_auto_new"} :
        /\ loaded = [width |-> d[1], height |-> d[2], env |-> env]
        /\ op = [name |-> "start", how |-> how]
    /\ ultimate_engine = Idle
    /\ naive_engine = Idle
    /\ fault = "none"
    /\ generation = 0
    /\ calls = 0
    /\ combo = Idle
    /\ next_gen = <<>>

(* UltimateEngine::<N>::new(width, height), called directly.                *)
BuildNew(n) ==
    /\ op.name = "start" /\ op.how = "new"
    /\ LET r == NewIn(loaded.width, loaded.height, n, loaded.env)
       IN  /\ ultimate_engine' = r[1]
           /\ fault' = IF r[2] THEN "panic" ELSE "none"
    /\ op' = [name |-> "new"]
    /\ UNCHANGED <<naive_engine, loaded, generation, calls, combo, next_gen>>

BuildSafeAutoNew ==
    /\ op.name = "start" /\ op.how = "safe_auto_new"
    /\ LET r == safe_auto_new_ultimate_engine(loaded.width, loaded.height, loaded.env)
       IN  /\ ultimate_engine' = r.ultimate
           /\ naive_engine' = r.naive
           /\ fault' = IF r.panicked THEN "panic" ELSE "none"
    /\ op' = [name |-> "safe_auto_new"]
    /\ UNCHANGED <<loaded, generation, calls, combo, next_gen>>

(* engine.set_grid(g) on the engine built.                                  *)
BuiltSetGrid(g) ==
    /\ op.name # "start" /\ fault = "none"
    /\ calls < MaxSets
    /\ calls' = calls + 1
    /\ op' = [name |-> "set_grid"]
    /\ IF ultimate_engine # Idle
       THEN /\ IF SetGridFaults(ultimate_engine, g)
               THEN fault' = "panic" /\ UNCHANGED ultimate_engine
               ELSE fault' = "none" /\ ultimate_engine' = set_grid(ultimate_engine, g)
            /\ UNCHANGED naive_engine
       ELSE /\ naive_engine' = naive_set_grid(naive_engine, g)
            /\ fault' = "none"
            /\ UNCHANGED ultimate_engine
    /\ UNCHANGED <<loaded, generation, combo, next_gen>>

(* engine.step() on the engine built.                                       *)
BuiltStep ==
    /\ op.name # "start" /\ fault = "none"
    /\ generation < MaxSteps
    /\ generation' = generation + 1
    /\ op' = [name |-> "step"]
    /\ IF ultimate_engine # Idle
       THEN /\ LET r == step_batch(ultimate_engine, 1)
               IN  /\ ultimate_engine' = r[1]
                   /\ fault' = IF r[2] THEN "panic" ELSE "none"
            /\ UNCHANGED naive_engine
       ELSE /\ IF UpdateFaults(naive_engine)
               THEN fault' = "panic" /\ UNCHANGED naive_engine
               ELSE fault' = "none" /\ naive_engine' = update_safe(naive_engine)
            /\ UNCHANGED ultimate_engine
    /\ UNCHANGED <<loaded, calls, combo, next_gen>>

BuildNext ==
    \/ \E n \in ApiLanes : BuildNew(n)
    \/ BuildSafeAutoNew
    \/ \E g \in {Full(2, 2), GridOf(3, 3, HLine(1, 0))} : BuiltSetGrid(g)
    \/ BuiltStep

SpecBuild == BuildInit /\ [][BuildNext]_vars

(* The environment cannot give new a thread pool.                           *)
NoPoolSupport(env) == env.wasm \/ ~env.build_ok

(* C12: construction never propagates a fault of missing vector or          *)
(* parallelism support.  safe_auto_new_ultimate_engine(w, h) returns        *)
(* without fault an engine that reports w x h and no live cell: the         *)
(* UltimateEngine, or the fallback NaiveEngine exactly when new unwound.    *)
(* UltimateEngine::new returns an engine with no pool when the pool cannot  *)
(* be built, and that engine steps on the sequential path without fault.    *)
(* The only fault of an engine built is the step of a pooled engine that    *)
(* has no rows, which no missing support causes.                            *)
C12_ConstructionFallsBack ==
    LET env == loaded.env
        e == ultimate_engine
    IN  /\ op.name = "safe_auto_new" =>
              /\ fault = "none"
              /\ (e = Idle) = env.new_panics
              /\ (e # Idle) =>
                    /\ e.actual_width = loaded.width /\ e.actual_height = loaded.height
                    /\ count_live_cells(e) = 0
                    /\ naive_engine = Idle
              /\ (e = Idle) =>
                    /\ naive_engine.grid.width = loaded.width
                    /\ naive_engine.grid.height = loaded.height
                    /\ grid_count_live_cells(naive_engine.grid) = 0
        /\ (op.name = "new" /\ ~env.new_panics) =>
              /\ fault = "none"
              /\ e.actual_width = loaded.width /\ e.actual_height = loaded.height
        /\ (op.name # "start" /\ e # Idle /\ NoPoolSupport(env)) =>
              /\ e.pool = 0
              /\ fault = "none"
              /\ step_batch(e, 1) = <<Generation(e, SequentialWrites(e)), FALSE>>
        /\ (op.name # "start" /\ fault = "panic") =>
              \/ op.name = "new" /\ env.new_panics
              \/ e # Idle /\ e.pool # 0 /\ e.actual_height = 0

(* C12 witness: new found no pool to build and the engine has stepped a     *)
(* loaded pattern on.                                                       *)
C12_Witness ==
    /\ op.name = "step"
    /\ ~loaded.env.wasm /\ ~loaded.env.build_ok
    /\ ultimate_engine # Idle
    /\ ultimate_engine.pool = 0
    /\ fault = "none"
    /\ count_live_cells(ultimate_engine) > 0

(* The fallback engine was returned and has stepped a loaded pattern on.    *)
C12_FallbackWitness ==
    /\ op.name = "step"
    /\ loaded.env.new_panics
    /\ ultimate_engine = Idle
    /\ fault = "none"
    /\ grid_count_live_cells(naive_engine.grid) > 0

----------------------------------------------------------------------------
(* The benchmark harness: benchmark::benchmark_engine and                   *)
(* BenchmarkSuite::benchmark_engine over a &mut dyn GameOfLifeEngine.  The  *)
(* engine under the harness is the UltimateEngine<4> (ultimate_engine) or   *)
(* the NaiveEngine (naive_engine); the other one is Idle.                   *)

(* get_grid() of an UltimateEngine is a panic!.                             *)
get_grid_panics(kind) == kind = "ultimate"

(* GameOfLifeEngine::run_steps (default), used by the NaiveEngine.          *)
RECURSIVE naive_run_steps(_, _)
naive_run_steps(ne, steps) ==
    IF steps = 0 THEN ne ELSE naive_run_steps(update_safe(ne), steps - 1)

(* A TestPattern: its lines as the set of the <<row, col>> of the live      *)
(* characters, with the number of lines and the length of the first line.   *)
blinker_pattern == [name |-> "blinker", height |-> 3, width |-> 3, live |-> HLine(1, 0)]
block_pattern == [name |-> "block", height |-> 4, width |-> 4, live |-> Block(1, 1)]

(* create_test_grid: the pattern centred in a width x height grid, the      *)
(* characters that fall outside dropped.                                    *)
create_test_grid(pattern, width, height) ==
    LET start_row == (IF height > pattern.height THEN height - pattern.height ELSE 0) \div 2
        start_col == (IF width > pattern.width THEN width - pattern.width ELSE 0) \div 2
    IN  GridOf(width, height,
               {c \in {<<start_row + d[1], start_col + d[2]>> : d \in pattern.live} :
                    c[1] < height /\ c[2] < width})

(* Sizes and step counts a suite is built with, and the engines' sizes.     *)
BenchSizes == {<<2, 2>>, <<3, 3>>, <<5, 5>>, <<66, 3>>}
BenchSteps == {0, 1, 2}

(* The engine that is under the harness.                                    *)
BenchKind == IF ultimate_engine # Idle THEN "ultimate" ELSE "naive"

BenchInit ==
    /\ \E d \in BenchSizes, kind \in {"ultimate", "naive"}, pool \in EquivPools :
        \E pattern \in {blinker_pattern, block_pattern} :
            /\ loaded = create_test_grid(pattern, d[1], d[2])
            /\ ultimate_engine = IF kind = "ultimate" THEN from_grid(loaded, AutoLanes, pool)
                                 ELSE Idle
            /\ naive_engine = IF kind = "naive" THEN NaiveFromGrid(loaded) ELSE Idle
    /\ op = [name |-> "from_grid"]
    /\ fault = "none"
    /\ generation = 0
    /\ calls = 0
    /\ combo = Idle
    /\ next_gen = <<>>

(* run_steps(steps), then get_grid() and the result built from it.          *)
RunAndMeasure(ue, ne, name, steps) ==
    IF ue # Idle
    THEN LET r == step_batch(ue, steps)
         IN  /\ ultimate_engine' = r[1]
             /\ naive_engine' = ne
             /\ fault' = IF r[2] \/ get_grid_panics("ultimate") THEN "panic" ELSE "none"
             /\ op' = [name |-> name, steps |-> steps, returned |-> FALSE]
    ELSE LET after == naive_run_steps(ne, steps)
         IN  /\ naive_engine' = after
             /\ ultimate_engine' = ue
             /\ fault' = "none"
             /\ op' = [name |-> name, steps |-> steps, returned |-> TRUE,
                       total_cells |-> after.grid.width * after.grid.height,
                       live_cells |-> grid_count_live_cells(after.grid)]

(* benchmark::benchmark_engine(engine, steps)                               *)
BenchmarkEngine(steps) ==
    /\ fault = "none"
    /\ generation + steps <= MaxSteps
    /\ generation' = generation + steps
    /\ RunAndMeasure(ultimate_engine, naive_engine, "benchmark_engine", steps)
    /\ UNCHANGED <<loaded, calls, combo, next_gen>>

(* One pass of the loops of BenchmarkSuite::benchmark_engine: a size, a     *)
(* step count and a pattern of the suite.                                   *)
SuiteBenchmarkEngine(size, steps, pattern) ==
    /\ fault = "none"
    /\ calls < MaxSets
    /\ calls' = calls + 1
    /\ generation + steps <= MaxSteps
    /\ generation' = generation + steps
    /\ LET grid == create_test_grid(pattern, size[1], size[2])
       IN  /\ loaded' = grid
           /\ IF ultimate_engine # Idle
              THEN RunAndMeasure(set_grid(ultimate_engine, grid), naive_engine,
                                 "suite_benchmark_engine", steps)
              ELSE RunAndMeasure(ultimate_engine, naive_set_grid(naive_engine, grid),
                                 "suite_benchmark_engine", steps)
    /\ UNCHANGED <<combo, next_gen>>

BenchNext ==
    \/ \E steps \in BenchSteps : BenchmarkEngine(steps)
    \/ \E size \in BenchSizes, steps \in BenchSteps :
        \E pattern \in {blinker_pattern, block_pattern} :
            SuiteBenchmarkEngine(size, steps, pattern)

SpecBench == BenchInit /\ [][BenchNext]_vars

(* C13: given an UltimateEngine, benchmark_engine and the suite's           *)
(* benchmark_engine run the requested steps and return a result holding     *)
(* total_cells and live_cells of the final state, without faulting.         *)
C13_BenchmarkReturns ==
    (op.name \in {"benchmark_engine", "suite_benchmark_engine"} /\ BenchKind = "ultimate") =>
        /\ fault = "none"
        /\ op.returned
        /\ op.total_cells = ultimate_engine.actual_width * ultimate_engine.actual_height
        /\ op.live_cells = count_live_cells(ultimate_engine)

(* The same for the NaiveEngine, whose get_grid() returns its grid.         *)
C13_NaiveBenchmarkReturns ==
    (op.name \in {"benchmark_engine", "suite_benchmark_engine"} /\ BenchKind = "naive") =>
        /\ fault = "none"
        /\ op.returned
        /\ op.total_cells = naive_engine.grid.width * naive_engine.grid.height
        /\ op.live_cells = grid_count_live_cells(naive_engine.grid)

----------------------------------------------------------------------------
(* StandardGrid on its own: new, from_string_pattern, get_cell, set_cell    *)
(* and count_neighbors.  The grid is held in loaded (Idle: no grid).        *)

MaxRows == 3         \* longest pattern (rows) given to from_string_pattern

(* The rows patterns are made of; "x" is neither character.                  *)
RowArgs ==
    {<<>>, <<"#", ".">>, <<"#", "x">>, <<".", "#", "#">>, <<"#", "#", "#">>}

PatternArgs == UNION {[1 .. n -> RowArgs] : n \in 0 .. MaxRows}

(* <<alive_char, dead_char>>                                                *)
CharArgs == {<<"#", ".">>, <<".", "#">>, <<"#", "#">>}

(* One row of from_string_pattern's loop: cells with the row's cells        *)
(* pushed, or the Err of a wrong length or of a character that is neither.  *)
RECURSIVE PushRow(_, _, _, _)
PushRow(cells, row_chars, alive_char, dead_char) ==
    IF row_chars = <<>> THEN [ok |-> TRUE, cells |-> cells]
    ELSE LET ch == Head(row_chars)
         IN  IF ch = alive_char
             THEN PushRow(Append(cells, TRUE), Tail(row_chars), alive_char, dead_char)
             ELSE IF ch = dead_char
             THEN PushRow(Append(cells, FALSE), Tail(row_chars), alive_char, dead_char)
             ELSE [ok |-> FALSE, err |-> "Invalid character"]

(* The row scan without the test of the row's length.                       *)
ScanRowAnyLength(cells, row_chars, width, alive_char, dead_char) ==
    PushRow(cells, row_chars, alive_char, dead_char)

ScanRow(cells, row_chars, width, alive_char, dead_char) ==
    IF Len(row_chars) # width
    THEN [ok |-> FALSE, err |-> "Row has wrong length"]
    ELSE PushRow(cells, row_chars, alive_char, dead_char)

RECURSIVE ScanRows(_, _, _, _, _)
ScanRows(cells, rows, width, alive_char, dead_char) ==
    IF rows = <<>> THEN [ok |-> TRUE, cells |-> cells]
    ELSE LET r == ScanRow(cells, Head(rows), width, alive_char, dead_char)
         IN  IF r.ok THEN ScanRows(r.cells, Tail(rows), width, alive_char, dead_char)
             ELSE r

(* from_string_pattern: Ok(grid) or Err(message).  The Vec<bool> built by   *)
(* push becomes the set of the indices that hold true.                      *)
from_string_pattern(pattern, alive_char, dead_char) ==
    IF pattern = <<>> THEN [ok |-> FALSE, err |-> "Pattern cannot be empty"]
    ELSE LET height == Len(pattern)
             width == Len(pattern[1])
         IN  IF width = 0 THEN [ok |-> FALSE, err |-> "Pattern width cannot be zero"]
             ELSE LET r == ScanRows(<<>>, pattern, width, alive_char, dead_char)
                  IN  IF r.ok
                      THEN [ok |-> TRUE,
                            grid |-> [width |-> width, height |-> height,
                                      cells |-> {i - 1 : i \in {j \in 1 .. Len(r.cells) : r.cells[j]}}]]
                      ELSE r

(* get_cell with its assert!: the value, whether it panicked, and the       *)
(* indices of cells it read.                                                *)
StandardGrid_get_cell(g, row, col) ==
    IF ~InBounds(g, row, col)
    THEN [panicked |-> TRUE, value |-> FALSE, touched |-> {}]
    ELSE [panicked |-> FALSE, value |-> grid_get_cell(g, row, col),
          touched |-> {index(g, row, col)}]

(* set_cell that indexes the Vec without the assert!: only an index beyond  *)
(* the Vec panics.                                                          *)
StandardGrid_set_cell_no_assert(g, row, col, alive) ==
    IF index(g, row, col) >= g.width * g.height
    THEN [panicked |-> TRUE, grid |-> g, touched |-> {}]
    ELSE [panicked |-> FALSE, grid |-> grid_set_cell(g, row, col, alive),
          touched |-> {index(g, row, col)}]

(* set_cell with its assert!: the grid after, whether it panicked, and the  *)
(* indices of cells it wrote.                                               *)
StandardGrid_set_cell(g, row, col, alive) ==
    IF ~InBounds(g, row, col)
    THEN [panicked |-> TRUE, grid |-> g, touched |-> {}]
    ELSE [panicked |-> FALSE, grid |-> grid_set_cell(g, row, col, alive),
          touched |-> {index(g, row, col)}]

(* The positions count_neighbors calls get_cell on.                         *)
count_neighbors_reads(g, row, col) ==
    {<<row + d[1], col + d[2]>> : d \in
        {d \in {-1, 0, 1} \X {-1, 0, 1} :
            /\ ~(d[1] = 0 /\ d[2] = 0)
            /\ row + d[1] >= 0 /\ row + d[1] < g.height
            /\ col + d[2] >= 0 /\ col + d[2] < g.width}}

GridDims == {<<0, 0>>, <<0, 2>>, <<2, 0>>, <<1, 1>>, <<3, 2>>, <<3, 3>>}

(* Coordinates given to get_cell and set_cell: the grid and one past it.    *)
GridCellArgs(g) == IF g = Idle THEN {} ELSE (0 .. g.height) \X (0 .. g.width)

GridInit ==
    /\ loaded = Idle
    /\ op = [name |-> "start"]
    /\ fault = "none"
    /\ ultimate_engine = Idle
    /\ naive_engine = Idle
    /\ generation = 0
    /\ calls = 0
    /\ combo = Idle
    /\ next_gen = <<>>

GridNew(width, height) ==
    /\ op.name = "start"
    /\ loaded' = StandardGridNew(width, height)
    /\ op' = [name |-> "new", width |-> width, height |-> height]
    /\ UNCHANGED <<ultimate_engine, naive_engine, fault, generation, calls, combo, next_gen>>

GridFromStringPattern(pattern, alive_char, dead_char) ==
    /\ op.name = "start"
    /\ LET r == from_string_pattern(pattern, alive_char, dead_char)
       IN  /\ loaded' = IF r.ok THEN r.grid ELSE Idle
           /\ op' = [name |-> "from_string_pattern", pattern |-> pattern,
                     alive_char |-> alive_char, dead_char |-> dead_char, ok |-> r.ok]
    /\ UNCHANGED <<ultimate_engine, naive_engine, fault, generation, calls, combo, next_gen>>

GridSetCell(row, col, alive) ==
    /\ loaded # Idle /\ fault = "none"
    /\ calls < MaxSets
    /\ calls' = calls + 1
    /\ LET r == StandardGrid_set_cell(loaded, row, col, alive)
       IN  /\ loaded' = r.grid
           /\ fault' = IF r.panicked THEN "panic" ELSE "none"
           /\ op' = [name |-> "set_cell", row |-> row, col |-> col, alive |-> alive,
                     touched |-> r.touched]
    /\ UNCHANGED <<ultimate_engine, naive_engine, generation, combo, next_gen>>

GridGetCell(row, col) ==
    /\ loaded # Idle /\ fault = "none"
    /\ LET r == StandardGrid_get_cell(loaded, row, col)
       IN  /\ fault' = IF r.panicked THEN "panic" ELSE "none"
           /\ op' = [name |-> "get_cell", row |-> row, col |-> col, value |-> r.value,
                     touched |-> r.touched]
    /\ UNCHANGED <<ultimate_engine, naive_engine, loaded, generation, calls, combo, next_gen>>

(* count_neighbors(row, col) of an in-bounds cell.                          *)
GridCountNeighbors(row, col) ==
    /\ loaded # Idle /\ fault = "none"
    /\ InBounds(loaded, row, col)
    /\ op' = [name |-> "count_neighbors", row |-> row, col |-> col,
              count |-> count_neighbors(loaded, row, col),
              reads |-> count_neighbors_reads(loaded, row, col)]
    /\ UNCHANGED <<ultimate_engine, naive_engine, loaded, fault, generation, calls, combo,
                   next_gen>>

GridNext ==
    \/ \E d \in GridDims : GridNew(d[1], d[2])
    \/ \E pattern \in PatternArgs, ch \in CharArgs : GridFromStringPattern(pattern, ch[1], ch[2])
    \/ \E c \in GridCellArgs(loaded), alive \in BOOLEAN : GridSetCell(c[1], c[2], alive)
    \/ \E c \in GridCellArgs(loaded) : GridGetCell(c[1], c[2])
    \/ \E c \in GridCellArgs(loaded) : GridCountNeighbors(c[1], c[2])

SpecGrid == GridInit /\ [][GridNext]_vars

(* C14: get_cell(row, col) and set_cell(row, col, v) fault whenever row >=   *)
(* height or col >= width and then touch no cell; in range, set_cell makes  *)
(* get_cell(row, col) return v and changes no other cell, and get_cell      *)
(* returns the cell's value.                                                *)
C14_CellAccess ==
    [][LET g == loaded
           row == op'.row
           col == op'.col
           outside == row >= g.height \/ col >= g.width
       IN  /\ op'.name = "set_cell" =>
                 IF outside
                 THEN fault' = "panic" /\ loaded' = g /\ op'.touched = {}
                 ELSE /\ fault' = "none"
                      /\ StandardGrid_get_cell(loaded', row, col).value = op'.alive
                      /\ ~StandardGrid_get_cell(loaded', row, col).panicked
                      /\ loaded'.width = g.width /\ loaded'.height = g.height
                      /\ loaded'.cells \subseteq 0 .. (g.width * g.height - 1)
                      /\ \A r \in 0 .. (g.height - 1) : \A c \in 0 .. (g.width - 1) :
                            (r # row \/ c # col) =>
                                ((r * g.width + c \in loaded'.cells) = (r * g.width + c \in g.cells))
           /\ op'.name = "get_cell" =>
                 /\ loaded' = g
                 /\ IF outside
                    THEN fault' = "panic" /\ op'.touched = {}
                    ELSE /\ fault' = "none"
                         /\ op'.value = (row * g.width + col \in g.cells)
                         /\ op'.touched = {row * g.width + col}]_vars

(* C14 witness: set_cell one column past the width, in a row that has a     *)
(* row below it, panicked.                                                  *)
C14_Witness ==
    /\ op.name = "set_cell"
    /\ fault = "panic"
    /\ op.col = loaded.width
    /\ op.row + 1 < loaded.height
    /\ op.alive

(* C15: from_string_pattern returns Ok with height = the number of rows,    *)
(* width = the number of characters of the first row and cell (r, c) alive  *)
(* exactly when character c of row r is the alive character, when the       *)
(* pattern is non-empty, rectangular and uses only the two characters; it   *)
(* returns Err and no grid when the pattern is empty, its first row is      *)
(* empty, a row has another length or a character is neither.               *)
C15_FromStringPattern ==
    op.name = "from_string_pattern" =>
        LET p == op.pattern
            well_formed ==
                /\ Len(p) > 0
                /\ Len(p[1]) > 0
                /\ \A r \in 1 .. Len(p) : Len(p[r]) = Len(p[1])
                /\ \A r \in 1 .. Len(p) : \A c \in 1 .. Len(p[r]) :
                      p[r][c] \in {op.alive_char, op.dead_char}
        IN  /\ fault = "none"
            /\ op.ok = well_formed
            /\ op.ok =>
                  /\ loaded.height = Len(p)
                  /\ loaded.width = Len(p[1])
                  /\ \A r \in 1 .. Len(p) : \A c \in 1 .. Len(p[1]) :
                        StandardGrid_get_cell(loaded, r - 1, c - 1).value
                            = (p[r][c] = op.alive_char)
                  /\ loaded.cells \subseteq 0 .. (loaded.width * loaded.height - 1)
            /\ ~op.ok => loaded = Idle

(* C15 witness: a 3x3 pattern with live and dead characters was parsed.     *)
C15_Witness ==
    /\ op.name = "from_string_pattern"
    /\ op.ok
    /\ Len(op.pattern) = 3
    /\ loaded.width = 3
    /\ loaded.cells # {}
    /\ Cardinality(loaded.cells) < 9

(* A ragged pattern was refused.                                            *)
C15_ErrWitness ==
    /\ op.name = "from_string_pattern"
    /\ ~op.ok
    /\ Len(op.pattern) = 2
    /\ Len(op.pattern[1]) = 2 /\ Len(op.pattern[2]) = 3

(* C16: count_neighbors(row, col) of an in-bounds cell is the number of     *)
(* live cells among the adjacent in-bounds positions, the cell itself not   *)
(* counted and nothing wrapped; it lies in 0 .. 8 and get_cell is called    *)
(* on in-bounds positions only.                                             *)
C16_CountNeighbors ==
    op.name = "count_neighbors" =>
        LET g == loaded
            near(a, b) == a - b \in {-1, 0, 1}
            adjacent == {p \in (0 .. (g.height - 1)) \X (0 .. (g.width - 1)) :
                            /\ p # <<op.row, op.col>>
                            /\ near(p[1], op.row) /\ near(p[2], op.col)}
        IN  /\ fault = "none"
            /\ op.count = Cardinality({p \in adjacent : p[1] * g.width + p[2] \in g.cells})
            /\ op.count \in 0 .. 8
            /\ op.reads = adjacent
            /\ \A p \in op.reads : p[1] >= 0 /\ p[2] >= 0 /\ p[1] < g.height /\ p[2] < g.width

(* C16 witness: a live cell with eight live neighbours, and a live corner   *)
(* cell with three.                                                         *)
C16_Witness ==
    /\ op.name = "count_neighbors"
    /\ op.row * loaded.width + op.col \in loaded.cells
    /\ \/ op.count = 8
       \/ op.count = 3 /\ op.row = 0 /\ op.col = 0 /\ loaded.height = 3

----------------------------------------------------------------------------
(* The bits of word-column col (1 .. columns - 2) that stand for a logical  *)
(* x >= actual_width: bit b of the word is x = global_x(col) + 63 - b.      *)
HiddenBits(e, col) ==
    {b \in 0 .. (WordBits - 1) : global_x(col) + (WordBits - 1 - b) >= e.actual_width}

(* The words that hold a live hidden cell, as <<padded row, word-column>>.   *)
HiddenAlive(e) ==
    {c \in (0 .. (e.height - 1)) \X (1 .. (e.columns - 2)) :
        BitAnd(e.field[c[1] * e.columns + c[2]], HiddenBits(e, c[2])) # Zero}

(* C17: after every step, for every width and lane count, every bit of the  *)
(* current field that stands for a logical x >= W is zero.                  *)
C17_HiddenBitsZero ==
    (fault = "none" /\ generation > 0) => HiddenAlive(ultimate_engine) = {}

(* The same where every chunk that holds a word-column at or beyond         *)
(* boundary_x_start starts at or beyond it (the mask is then applied).      *)
C17_HiddenBitsZeroWhenMasked ==
    (/\ fault = "none" /\ generation > 0
     /\ \A x \in ChunkStarts(ultimate_engine) :
            x + ultimate_engine.N > ultimate_engine.boundary_x_start
                => x >= ultimate_engine.boundary_x_start)
        => HiddenAlive(ultimate_engine) = {}

----------------------------------------------------------------------------
(* The ghost border: the indices of padded row 0, padded row H + 1,         *)
(* word-column 0 and word-column columns - 1.                               *)
GhostBorder(e) ==
    {y * e.columns + c : y \in {0, e.height - 1}, c \in 0 .. (e.columns - 1)}
        \cup {y * e.columns + c : y \in 0 .. (e.height - 1), c \in {0, e.columns - 1}}

(* The indices of new_field that one step from e writes.                    *)
StepWriteIndices(e) ==
    IF StepFaults(e) THEN {}
    ELSE {w[1] : w \in IF e.pool # 0 THEN PooledWrites(e) ELSE SequentialWrites(e)}

(* C18: in every state reachable by new, set, set_grid and step the ghost   *)
(* border of field and of new_field holds only zero words, and a step       *)
(* writes none of its words.                                                *)
C18_GhostBorderZero ==
    LET e == ultimate_engine
    IN  /\ \A i \in GhostBorder(e) : e.field[i] = Zero /\ e.new_field[i] = Zero
        /\ StepWriteIndices(e) \cap GhostBorder(e) = {}

(* C18 witness: a step has left live cells in all four corners of a 3x3     *)
(* grid, and the field before it is in new_field.                           *)
C18_Witness ==
    /\ op.name = "step"
    /\ fault = "none"
    /\ ultimate_engine.actual_width = 3 /\ ultimate_engine.actual_height = 3
    /\ get_cell(ultimate_engine, 0, 0) /\ get_cell(ultimate_engine, 0, 2)
    /\ get_cell(ultimate_engine, 2, 0) /\ get_cell(ultimate_engine, 2, 2)
    /\ \E i \in DOMAIN ultimate_engine.new_field : ultimate_engine.new_field[i] # Zero

----------------------------------------------------------------------------
(* One step on the pooled path, worker by worker: pool.scope spawns one     *)
(* task per slice of chunks_mut, the tasks run their rows in any            *)
(* interleaving, and the scope joins them before swap.  ultimate_engine is  *)
(* the engine as the tasks see and write it, loaded the engine the scope    *)
(* started from, combo the tasks (their slice and the local rows done) and  *)
(* next_gen, per word of new_field, the tasks that have written it.         *)

MaxPoolRows == 4     \* tallest grid stepped worker by worker

PoolDims == {3, WordBits + 1} \X (0 .. MaxPoolRows)

PoolPatterns(width, height) ==
    LET cells == (0 .. (height - 1)) \X (0 .. (width - 1))
    IN  {cells, {c \in cells : c[2] = width - 1}}

PoolInit ==
    /\ \E d \in PoolDims, n \in ApiLanes, pool \in 1 .. MaxThreads :
        \E live \in PoolPatterns(d[1], d[2]) :
            ultimate_engine = from_grid(GridOf(d[1], d[2], live), n, pool)
    /\ op = [name |-> "from_grid"]
    /\ fault = "none"
    /\ loaded = Idle
    /\ combo = Idle
    /\ next_gen = <<>>
    /\ naive_engine = Idle
    /\ generation = 0
    /\ calls = 0

(* pool.scope: chunks_mut panics on a chunk size of zero; else one task per *)
(* slice is spawned.                                                        *)
ScopeSpawn ==
    /\ fault = "none" /\ combo.name = "idle"
    /\ generation < MaxSteps
    /\ op' = [name |-> "scope"]
    /\ IF PooledFaults(ultimate_engine)
       THEN /\ fault' = "panic"
            /\ UNCHANGED <<loaded, combo, next_gen>>
       ELSE /\ fault' = "none"
            /\ loaded' = ultimate_engine
            /\ LET tasks == ChunksMut(ultimate_engine,
                                      chunk_size(ultimate_engine) * ultimate_engine.columns)
               IN  combo' = [name |-> "scope",
                             tasks |-> Vec([i \in {t[1] : t \in tasks} |->
                                LET t == CHOOSE t \in tasks : t[1] = i
                                IN  [start |-> t[2], len |-> t[3], done |-> 0]])]
            /\ next_gen' = Vec([k \in DOMAIN ultimate_engine.new_field |-> {}])
    /\ UNCHANGED <<ultimate_engine, naive_engine, generation, calls>>

(* The words of field that the chunk at word-column x of padded row y       *)
(* reads: three rows of N words and the word left and right of each.        *)
ChunkReads(e, y, x) ==
    LET i == y * e.columns + x
    IN  {r + l : r \in {i - e.columns, i, i + e.columns}, l \in -1 .. e.N}

(* One pass of the loop over yl in the task of slice i: local row           *)
(* yl = done, padded row y = yl + i * chunk_size + 1, every chunk of the    *)
(* row computed from field and copied into the task's target slice.         *)
WorkerRow(i) ==
    /\ fault = "none" /\ combo.name = "scope"
    /\ i \in DOMAIN combo.tasks
    /\ combo.tasks[i].done < combo.tasks[i].len \div ultimate_engine.columns
    /\ LET e == ultimate_engine
           task == combo.tasks[i]
           yl == task.done
           y == yl + i * chunk_size(e) + 1
           writes == RowWrites(e, task.start, yl * e.columns, y)
           inside == \A w \in writes :
                        /\ w[1] \in DOMAIN e.new_field
                        /\ w[1] - task.start < task.len
           results == Vec([x \in ChunkStarts(e) |-> ChunkResult(e, y, x)])
       IN  /\ op' = [name |-> "worker", task |-> i, yl |-> yl, y |-> y,
                     writes |-> {w[1] : w \in writes},
                     reads |-> UNION {ChunkReads(e, y, x) : x \in ChunkStarts(e)}]
           /\ IF inside
              THEN /\ fault' = "none"
                   /\ ultimate_engine' =
                        [e EXCEPT !.new_field =
                            Vec([k \in DOMAIN @ |->
                                LET hit == {w \in writes : w[1] = k}
                                IN  IF hit = {} THEN @[k]
                                    ELSE LET w == CHOOSE w \in hit : TRUE
                                         IN  results[w[3]][w[4]]])]
                   /\ next_gen' = Vec([k \in DOMAIN next_gen |->
                                    IF \E w \in writes : w[1] = k
                                    THEN next_gen[k] \cup {i} ELSE next_gen[k]])
                   /\ combo' = [combo EXCEPT !.tasks[i].done = @ + 1]
              ELSE /\ fault' = "panic"
                   /\ UNCHANGED <<ultimate_engine, next_gen, combo>>
    /\ UNCHANGED <<naive_engine, loaded, generation, calls>>

(* A swap that does not wait for the tasks of the scope.                    *)
ScopeJoinEarly ==
    /\ fault = "none" /\ combo.name = "scope"
    /\ ultimate_engine' = [ultimate_engine EXCEPT !.field = ultimate_engine.new_field,
                                                  !.new_field = ultimate_engine.field]
    /\ combo' = Idle
    /\ generation' = generation + 1
    /\ op' = [name |-> "join"]
    /\ UNCHANGED <<naive_engine, loaded, fault, next_gen, calls>>

(* The scope returns when every task has finished; then                     *)
(* std::mem::swap(&mut self.field, &mut self.new_field).                    *)
ScopeJoin ==
    /\ fault = "none" /\ combo.name = "scope"
    /\ \A i \in DOMAIN combo.tasks :
          combo.tasks[i].done = combo.tasks[i].len \div ultimate_engine.columns
    /\ ultimate_engine' = [ultimate_engine EXCEPT !.field = ultimate_engine.new_field,
                                                  !.new_field = ultimate_engine.field]
    /\ combo' = Idle
    /\ generation' = generation + 1
    /\ op' = [name |-> "join"]
    /\ UNCHANGED <<naive_engine, loaded, fault, next_gen, calls>>

PoolNext ==
    \/ ScopeSpawn
    \/ \E i \in 0 .. (MaxThreads + 1) : WorkerRow(i)
    \/ ScopeJoin

SpecPool == PoolInit /\ [][PoolNext]_vars

(* The padded rows that hold a word of the slice of task t.                 *)
SliceRows(e, t) ==
    {idx \div e.columns : idx \in t.start .. (t.start + t.len - 1)}

(* C19: on the pooled path with T workers and H >= 1 interior rows the row  *)
(* ranges handed to the tasks are contiguous, pairwise disjoint, cover the  *)
(* padded rows 1 .. H once, number at most T and have ceil(H / T) rows each *)
(* except possibly the last; the y a task computes for its local row yl is  *)
(* the row of its target slice that it writes.                              *)
C19_RowPartition ==
    LET e == ultimate_engine
        H == e.height - 2
        T == e.pool
    IN  /\ (op.name = "scope" /\ H >= 1) => (fault = "none" /\ combo.name = "scope")
        /\ combo.name = "scope" =>
              LET tasks == combo.tasks
                  k == Cardinality(DOMAIN tasks)
                  first(i) == tasks[i].start \div e.columns
                  count(i) == tasks[i].len \div e.columns
              IN  /\ DOMAIN tasks = 0 .. (k - 1)
                  /\ k >= 1 /\ k <= T
                  /\ \A i \in DOMAIN tasks :
                        /\ tasks[i].start % e.columns = 0
                        /\ tasks[i].len % e.columns = 0
                        /\ SliceRows(e, tasks[i]) = first(i) .. (first(i) + count(i) - 1)
                        /\ IF i < k - 1
                           THEN count(i) = div_ceil(H, T)
                           ELSE count(i) >= 1 /\ count(i) <= div_ceil(H, T)
                        /\ first(i) = IF i = 0 THEN 1 ELSE first(i - 1) + count(i - 1)
                  /\ \A i, j \in DOMAIN tasks :
                        i # j => SliceRows(e, tasks[i]) \cap SliceRows(e, tasks[j]) = {}
                  /\ \A r \in 1 .. H :
                        Cardinality({i \in DOMAIN tasks : r \in SliceRows(e, tasks[i])}) = 1
                  /\ UNION {SliceRows(e, tasks[i]) : i \in DOMAIN tasks} = 1 .. H
        /\ op.name = "worker" =>
              LET t == combo.tasks[op.task]
              IN  /\ fault = "none"
                  /\ op.y = t.start \div e.columns + op.yl
                  /\ op.y \in SliceRows(e, t)
                  /\ \A idx \in op.writes :
                        /\ idx \div e.columns = op.y
                        /\ idx >= t.start /\ idx < t.start + t.len

(* C19 witness: three rows and two workers, ranges of two rows and of one,  *)
(* and the task of the short range has run its row.                         *)
C19_Witness ==
    /\ combo.name = "scope"
    /\ ultimate_engine.height - 2 = 3 /\ ultimate_engine.pool = 2
    /\ DOMAIN combo.tasks = {0, 1}
    /\ combo.tasks[0].len = 2 * ultimate_engine.columns
    /\ combo.tasks[1].len = ultimate_engine.columns
    /\ op.name = "worker" /\ op.task = 1 /\ op.y = 3

(* Four rows and three workers: two ranges only.                            *)
C19_FewerRangesWitness ==
    /\ combo.name = "scope"
    /\ ultimate_engine.height - 2 = 4 /\ ultimate_engine.pool = 3
    /\ DOMAIN combo.tasks = {0, 1}

(* C20: during a step no word of field is written, no word of new_field is  *)
(* read and each word of new_field is written by at most one task, so the   *)
(* tasks in any interleaving leave what the step computes from the field it *)
(* started with.                                                            *)
C20_NoConflict ==
    /\ combo.name = "scope" =>
          /\ ultimate_engine.field = loaded.field
          /\ \A k \in DOMAIN next_gen : Cardinality(next_gen[k]) <= 1
          /\ \A k \in DOMAIN next_gen :
                next_gen[k] # {} =>
                    ultimate_engine.new_field[k] = StepOnce(loaded).field[k]
    /\ op.name = "worker" =>
          /\ op.reads \subseteq DOMAIN ultimate_engine.field
          /\ op.writes \subseteq DOMAIN ultimate_engine.new_field
    /\ op.name = "join" =>
          /\ ultimate_engine = StepOnce(loaded)
          /\ \A k \in DOMAIN next_gen : Cardinality(next_gen[k]) <= 1

(* C20 witness: of three tasks the last has written live words while the    *)
(* first has not started.                                                   *)
C20_Witness ==
    /\ combo.name = "scope"
    /\ DOMAIN combo.tasks = {0, 1, 2}
    /\ combo.tasks[0].done = 0
    /\ combo.tasks[2].done > 0
    /\ \E k \in DOMAIN next_gen :
            next_gen[k] = {2} /\ ultimate_engine.new_field[k] # Zero
    /\ \E k \in DOMAIN loaded.new_field :
            loaded.new_field[k] # ultimate_engine.new_field[k]

----------------------------------------------------------------------------
(* Calls of step() and run_steps(n) from entry to return, the generations   *)
(* of the loop of step_batch one by one, and the readers get, get_cell and  *)
(* count_live_cells, which borrow the engine and so run between calls.      *)
(* naive_engine holds the call in progress (Idle: none): what was asked and *)
(* the value of generation at entry.                                        *)

CallDims == {<<3, 0>>, <<0, 2>>, <<3, 3>>, <<WordBits + 1, 2>>}

(* run_steps arguments hi * 2^32 + lo.                                      *)
CallArgs == [hi : {0, 1}, lo : {0, 1, 2}]

InCall == naive_engine.name = "call"

(* Swaps done by the call in progress.                                      *)
Swaps == generation - naive_engine.from

CallInit ==
    /\ \E d \in CallDims, n \in ApiLanes, pool \in 0 .. MaxThreads :
        \E live \in PoolPatterns(d[1], d[2]) :
            ultimate_engine = from_grid(GridOf(d[1], d[2], live), n, pool)
    /\ op = [name |-> "from_grid"]
    /\ fault = "none"
    /\ loaded = Idle
    /\ combo = Idle
    /\ next_gen = <<>>
    /\ naive_engine = Idle
    /\ generation = 0
    /\ calls = 0

(* step(): step_batch(1)                                                    *)
StepCall ==
    /\ fault = "none" /\ ~InCall
    /\ generation + 1 <= MaxSteps
    /\ naive_engine' = [name |-> "call", requested |-> [hi |-> 0, lo |-> 1],
                        batch |-> 1, from |-> generation]
    /\ op' = [name |-> "step"]
    /\ UNCHANGED <<ultimate_engine, fault, loaded, combo, next_gen, generation, calls>>

(* run_steps(n): step_batch(n as u32)                                       *)
RunStepsCall(n) ==
    /\ fault = "none" /\ ~InCall
    /\ generation + AsU32(n) <= MaxSteps
    /\ naive_engine' = [name |-> "call", requested |-> n, batch |-> AsU32(n),
                        from |-> generation]
    /\ op' = [name |-> "run_steps", n |-> n]
    /\ UNCHANGED <<ultimate_engine, fault, loaded, combo, next_gen, generation, calls>>

(* A pass of `for _ in 0..steps` on the pooled path: the scope is entered.  *)
CallSpawn ==
    /\ InCall /\ Swaps < naive_engine.batch
    /\ ultimate_engine.pool # 0
    /\ ScopeSpawn

(* A pass of `for _ in 0..steps` on the sequential path, then the swap.     *)
CallSequential ==
    /\ InCall /\ Swaps < naive_engine.batch
    /\ fault = "none"
    /\ ultimate_engine.pool = 0
    /\ op' = [name |-> "sequential"]
    /\ IF StepFaults(ultimate_engine)
       THEN /\ fault' = "panic"
            /\ UNCHANGED <<ultimate_engine, loaded, generation>>
       ELSE /\ fault' = "none"
            /\ loaded' = ultimate_engine
            /\ ultimate_engine' = StepOnce(ultimate_engine)
            /\ generation' = generation + 1
    /\ UNCHANGED <<naive_engine, combo, next_gen, calls>>

(* The loop has run `steps` times: step_batch returns.                      *)
Return ==
    /\ InCall /\ fault = "none"
    /\ combo.name = "idle"
    /\ Swaps = naive_engine.batch
    /\ op' = [name |-> "returned", requested |-> naive_engine.requested, swaps |-> Swaps]
    /\ naive_engine' = Idle
    /\ UNCHANGED <<ultimate_engine, fault, loaded, combo, next_gen, generation, calls>>

(* count_live_cells() and get_cell(0, 0) by the caller, who holds no call.  *)
Observe ==
    /\ ~InCall /\ fault = "none"
    /\ op' = [name |-> "observe", live |-> count_live_cells(ultimate_engine),
              cell |-> get_cell(ultimate_engine, 0, 0),
              tasks_running |-> combo.name = "scope"]
    /\ UNCHANGED <<ultimate_engine, naive_engine, fault, loaded, combo, next_gen, generation,
                   calls>>

CallNext ==
    \/ StepCall
    \/ \E n \in CallArgs : RunStepsCall(n)
    \/ CallSpawn
    \/ \E i \in 0 .. (MaxThreads + 1) : WorkerRow(i)
    \/ ScopeJoin
    \/ CallSequential
    \/ Return
    \/ Observe

SpecCall == CallInit /\ [][CallNext]_vars

(* Every task of the scope has run all its rows.                            *)
AllTasksDone ==
    /\ combo.name = "scope"
    /\ \A i \in DOMAIN combo.tasks :
          combo.tasks[i].done = combo.tasks[i].len \div ultimate_engine.columns

(* C21: within each generation the swap of field and new_field happens      *)
(* once, after every task spawned for the generation has finished its       *)
(* writes; field changes by the swap only, and the readers and the tasks of *)
(* the next generation see the field of a whole generation.                 *)
C21_SwapAfterWorkers ==
    [][LET swapped == generation' # generation
       IN  /\ swapped =>
                 /\ generation' = generation + 1
                 /\ ultimate_engine' = StepOnce(loaded')
                 /\ ultimate_engine.pool # 0 =>
                       /\ AllTasksDone
                       /\ combo'.name = "idle"
                       /\ loaded' = loaded
                       /\ ultimate_engine'.field = ultimate_engine.new_field
                       /\ ultimate_engine'.new_field = ultimate_engine.field
           /\ ~swapped => ultimate_engine'.field = ultimate_engine.field
           /\ (combo.name = "scope" /\ combo'.name = "idle") => swapped
           /\ (op'.name = "scope" /\ fault' = "none") =>
                 /\ combo.name = "idle"
                 /\ generation > 0 => ultimate_engine.field = StepOnce(loaded).field
           /\ op'.name = "observe" =>
                 /\ ~op'.tasks_running
                 /\ generation > 0 =>
                       /\ op'.live = count_live_cells(StepOnce(loaded))
                       /\ op'.cell = get_cell(StepOnce(loaded), 0, 0)]_vars

(* C21 witness: after one pooled generation of two tasks on three rows the  *)
(* caller counts the four corners alive.                                    *)
C21_Witness ==
    /\ op.name = "observe"
    /\ generation = 1
    /\ ultimate_engine.pool = 2 /\ ultimate_engine.actual_height = 3
    /\ op.live = 4 /\ op.cell

(* The steps of WorkerRow(i) and of CallSequential that do not panic, told  *)
(* by their guard and by what they count: a row done, a generation done.    *)
WorkerRowRuns(i) ==
    /\ fault = "none" /\ combo.name = "scope"
    /\ i \in DOMAIN combo.tasks
    /\ combo.tasks[i].done < combo.tasks[i].len \div ultimate_engine.columns
    /\ combo' = [combo EXCEPT !.tasks[i].done = @ + 1]

SequentialRuns ==
    /\ InCall /\ Swaps < naive_engine.batch
    /\ fault = "none"
    /\ ultimate_engine.pool = 0
    /\ generation' = generation + 1

(* The scheduling the code gives: the loop of step_batch goes on, the pool  *)
(* runs every task it was given, a task goes on to its next row, and the    *)
(* scope returns once its tasks are done.  The caller may stop calling.     *)
SpecCallFair ==
    /\ SpecCall
    /\ WF_vars(CallSpawn)
    /\ \A i \in 0 .. (MaxThreads + 1) : WF_combo(WorkerRowRuns(i))
    /\ WF_vars(ScopeJoin)
    /\ WF_generation(SequentialRuns)
    /\ WF_vars(Return)

(* The call has returned, after as many swaps as it was asked for.           *)
ReturnedExactly ==
    /\ op.name = "returned"
    /\ [hi |-> 0, lo |-> op.swaps] = op.requested

(* C22: every call of step() and of run_steps(n) eventually returns, after  *)
(* exactly the requested number of swaps.                                   *)
C22_CallsReturn == InCall ~> ReturnedExactly

(* The same for the calls that ask for fewer than 2^32 generations of an    *)
(* engine that has rows or no pool.                                         *)
C22_CallsReturnOnRows ==
    (/\ InCall
     /\ naive_engine.requested.hi = 0
     /\ ultimate_engine.pool = 0 \/ ultimate_engine.height > 2)
        ~> ReturnedExactly

(* A call that returns has made `steps as u32` swaps.                       *)
C22_ReturnsAfterBatch ==
    op.name = "returned" => op.swaps = AsU32(op.requested)

----------------------------------------------------------------------------
(* C23: on an engine built with width = 0 or height = 0, step() and         *)
(* run_steps(n) complete without faulting on the pooled and on the          *)
(* sequential path, and the engine has no live cell afterwards.             *)
C23_ZeroSizedSteps ==
    (/\ op.name \in {"step", "run_steps"}
     /\ ultimate_engine.actual_width = 0 \/ ultimate_engine.actual_height = 0)
        => (fault = "none" /\ count_live_cells(ultimate_engine) = 0)

(* The same for the engines that have rows or no pool.                      *)
C23_ZeroSizedStepsOnRows ==
    (/\ op.name \in {"step", "run_steps"}
     /\ ultimate_engine.actual_width = 0 \/ ultimate_engine.actual_height = 0
     /\ ultimate_engine.actual_height > 0 \/ ultimate_engine.pool = 0)
        => (fault = "none" /\ count_live_cells(ultimate_engine) = 0)

----------------------------------------------------------------------------
(* The indices of a step.  Engines of every layout: widths below, at and    *)
(* above a word and a chunk of words, every lane count, no pool and pools   *)
(* of 1 .. MaxThreads workers.                                              *)

MaxLayoutRows == 3   \* tallest engine of the layouts

LayoutWidths == {1, WordBits, WordBits + 1, 2 * WordBits + 1, 3 * WordBits + 8}

LayoutInit ==
    /\ \E w \in LayoutWidths, h \in 1 .. MaxLayoutRows, n \in Lanes, pool \in 0 .. MaxThreads :
        ultimate_engine = New(w, h, n, pool)
    /\ op = [name |-> "new"]
    /\ fault = "none"
    /\ loaded = Idle
    /\ combo = Idle
    /\ next_gen = <<>>
    /\ naive_engine = Idle
    /\ generation = 0
    /\ calls = 0

(* set(x, y) of a corner cell.                                              *)
LayoutSet(x, y) ==
    /\ fault = "none"
    /\ calls < MaxSets
    /\ calls' = calls + 1
    /\ op' = [name |-> "set", x |-> x, y |-> y]
    /\ IF AccessFaults(ultimate_engine, x, y)
       THEN fault' = "panic" /\ UNCHANGED ultimate_engine
       ELSE fault' = "none" /\ ultimate_engine' = set(ultimate_engine, x, y)
    /\ UNCHANGED <<naive_engine, loaded, generation, combo, next_gen>>

(* The target slices of one step: the slice and, for each of its rows, the  *)
(* offset of the row in the slice and the padded row y read for it.         *)
StepTargets(e) ==
    IF e.pool # 0
    THEN {[start |-> t[2], len |-> t[3], off |-> yl * e.columns,
           y |-> yl + t[1] * chunk_size(e) + 1] :
            t \in ChunksMut(e, chunk_size(e) * e.columns),
            yl \in 0 .. (MaxLayoutRows + 1)}
    ELSE {[start |-> t[2], len |-> t[3], off |-> 0, y |-> t[1] + 1] :
            t \in ChunksMut(e, e.columns)}

(* The rows of the slices that the loop over yl reaches.                    *)
StepRows(e) == {tg \in StepTargets(e) : tg.off \div e.columns < tg.len \div e.columns}

(* boundary_masks[col_idx] of the chunk at x: read under x >=               *)
(* boundary_x_start and col_idx < boundary_masks.len().                     *)
MaskReads(e, x) ==
    IF x >= e.boundary_x_start
    THEN {x + lane : lane \in {l \in 0 .. (e.N - 1) : x + l < VLen(e.boundary_masks)}}
    ELSE {}

(* target[off + x .. off + x + N]: the words of the slice written.          *)
TargetWrites(e, tg, x) == {tg.off + x + lane : lane \in 0 .. (e.N - 1)}

(* An access of the step outside its array: an index panic.                 *)
StepIndexFaults(e) ==
    \/ e.pool # 0 /\ PooledFaults(e)
    \/ \E tg \in StepRows(e), x \in ChunkStarts(e) :
          \/ ~(ChunkReads(e, tg.y, x) \subseteq DOMAIN e.field)
          \/ ~(MaskReads(e, x) \subseteq DOMAIN e.boundary_masks)
          \/ ~(TargetWrites(e, tg, x) \subseteq 0 .. (tg.len - 1))
          \/ ~({tg.start + k : k \in TargetWrites(e, tg, x)} \subseteq DOMAIN e.new_field)

(* step()                                                                   *)
LayoutStep ==
    /\ fault = "none"
    /\ generation < MaxSteps
    /\ op' = [name |-> "step"]
    /\ IF StepIndexFaults(ultimate_engine) \/ StepFaults(ultimate_engine)
       THEN /\ fault' = "panic"
            /\ UNCHANGED <<ultimate_engine, generation>>
       ELSE /\ fault' = "none"
            /\ ultimate_engine' = StepOnce(ultimate_engine)
            /\ generation' = generation + 1
    /\ UNCHANGED <<naive_engine, loaded, calls, combo, next_gen>>

LayoutNext ==
    \/ \E c \in {<<0, 0>>,
                 <<ultimate_engine.actual_width - 1, ultimate_engine.actual_height - 1>>} :
          LayoutSet(c[1], c[2])
    \/ LayoutStep

SpecLayout == LayoutInit /\ [][LayoutNext]_vars

(* C24: for every width >= 1, height >= 1, lane count and worker count,     *)
(* every index a step uses to read field (the N-word loads and the spliced  *)
(* words of the three rows), to read boundary_masks and to write its target *)
(* slice lies inside the array, so step never faults on an access.          *)
C24_StepIndicesInRange ==
    LET e == ultimate_engine
    IN  /\ fault = "none"
        /\ ~StepIndexFaults(e)
        /\ \A tg \in StepRows(e) :
              /\ tg.y >= 1 /\ tg.y <= e.actual_height
              /\ \A x \in ChunkStarts(e) :
                    /\ ChunkReads(e, tg.y, x) \subseteq DOMAIN e.field
                    /\ x + e.N <= e.columns - 1
        /\ {tg.y : tg \in StepRows(e)} = 1 .. e.actual_height

(* C24 witness: a pooled step of a 200-wide engine of four lanes has read   *)
(* the last word of the last row, where the cell set was.                   *)
C24_Witness ==
    /\ op.name = "step" /\ generation = 1
    /\ ultimate_engine.actual_width = 3 * WordBits + 8
    /\ ultimate_engine.N = 4 /\ ultimate_engine.pool >= 2
    /\ ultimate_engine.actual_height = MaxLayoutRows
    /\ ultimate_engine.new_field[
          CellIndex(ultimate_engine, ultimate_engine.actual_width - 1,
                    ultimate_engine.actual_height - 1)] # Zero

----------------------------------------------------------------------------
(* The positions of the live cells of padded row y of field, counted from   *)
(* the most significant bit of word-column 0: bit b of word-column c is the *)
(* cell at c * 64 + 63 - b.                                                 *)
RowCells(e, y) ==
    UNION {{c * WordBits + (WordBits - 1 - b) : b \in e.field[y * e.columns + c]} :
            c \in 0 .. (e.columns - 1)}

(* The offsets <<dy, dx>> of the cells that neighbour plane k stands for.   *)
PlaneOffset ==
    Vec([k \in 0 .. 7 |->
        CASE k = 0 -> <<-1, -1>> [] k = 1 -> <<-1, 0>> [] k = 2 -> <<-1, 1>>
          [] k = 3 -> <<0, -1>>                       [] k = 4 -> <<0, 1>>
          [] k = 5 -> <<1, -1>>  [] k = 6 -> <<1, 0>>  [] k = 7 -> <<1, 1>>])

(* The word of plane k for word-column c of padded row y, cell by cell: bit *)
(* b is set when the cell dx to the right in row y + dy is alive.           *)
AdjacentWord(e, y, c, k) ==
    LET dy == PlaneOffset[k][1]
        dx == PlaneOffset[k][2]
        at == {p - dx : p \in RowCells(e, y + dy)}
    IN  {WordBits - 1 - (q - c * WordBits) :
            q \in {p \in at : p >= c * WordBits /\ p < (c + 1) * WordBits}}

(* C25: in a step, for every interior word and bit position, the eight      *)
(* neighbour planes passed to sub_step hold the states in field of the      *)
(* eight adjacent cells, across bit positions, words and chunks of words;   *)
(* shl and shr move each lane by one bit, fill the vacated bit from the     *)
(* adjacent lane and fill 0 in the last (shl) or first (shr) lane; the      *)
(* cells of the ghost border are dead.                                      *)
C25_NeighbourPlanes ==
    LET e == ultimate_engine
    IN  /\ \A y \in 1 .. (e.height - 2) : \A x \in ChunkStarts(e) :
              LET nbs == Neighbours(e, y * e.columns + x)
              IN  \A k \in 0 .. 7 : \A lane \in 0 .. (e.N - 1) :
                      nbs[k][lane] = AdjacentWord(e, y, x + lane, k)
        /\ \A y \in 1 .. (e.height - 2) : \A x \in ChunkStarts(e) :
              LET v == get_simd(e, y * e.columns + x)
              IN  \A lane \in 0 .. (e.N - 1) :
                    /\ shl(v)[lane] =
                          {b + 1 : b \in v[lane] \ Msb}
                              \cup (IF lane < e.N - 1 /\ v[lane + 1] \cap Msb # {}
                                    THEN Lsb ELSE Zero)
                    /\ shr(v)[lane] =
                          {b - 1 : b \in v[lane] \ Lsb}
                              \cup (IF lane > 0 /\ v[lane - 1] \cap Lsb # {}
                                    THEN Msb ELSE Zero)
        /\ \A y \in {0, e.height - 1} : RowCells(e, y) = {}
        /\ \A y \in 1 .. (e.height - 2) : \A p \in RowCells(e, y) :
              p >= WordBits /\ p < (e.columns - 1) * WordBits

(* C25 witness: live cells on both sides of the boundary between two        *)
(* chunks of one word each, and of two words each, after a step.            *)
C25_Witness ==
    /\ generation > 0 /\ fault = "none"
    /\ \/ /\ ultimate_engine.N = 1
          /\ get(ultimate_engine, WordBits - 1, 1) /\ get(ultimate_engine, WordBits, 1)
       \/ /\ ultimate_engine.N = 2
          /\ get(ultimate_engine, 2 * WordBits - 1, 1) /\ get(ultimate_engine, 2 * WordBits, 1)

----------------------------------------------------------------------------
(* The in-bounds cells of e, as <<x, y>>.                                   *)
InBoundsCells(e) == (0 .. (e.actual_width - 1)) \X (0 .. (e.actual_height - 1))

(* e after bit 63 - x mod 64 of word-column x / 64 + 1 of padded row y + 1  *)
(* of field is set, everything else as it was.                              *)
WithOneBit(e, x, y) ==
    [e EXCEPT !.field[(y + 1) * e.columns + (x \div WordBits) + 1] =
                  @ \cup {WordBits - 1 - (x % WordBits)}]

(* C26: for in-bounds (x, y), set(x, y) sets exactly one bit, the bit at    *)
(* most-significant-first offset x mod 64 of word-column x / 64 + 1 in      *)
(* padded row y + 1 of field, after which get(x, y) is true; every other    *)
(* cell of field and the whole of new_field are unchanged, set is           *)
(* idempotent, and distinct in-bounds cells map to distinct bits.           *)
C26_SetOneBit ==
    [][LET e == ultimate_engine
           x == op'.x
           y == op'.y
       IN  /\ (op'.name = "set" /\ x < e.actual_width /\ y < e.actual_height) =>
                 /\ fault' = "none"
                 /\ (y + 1) * e.columns + (x \div WordBits) + 1 \in DOMAIN e.field
                 /\ ultimate_engine' = WithOneBit(e, x, y)
                 /\ ultimate_engine'.new_field = e.new_field
                 /\ get(ultimate_engine', x, y)
                 /\ \A c \in InBoundsCells(e) \ {<<x, y>>} :
                       get(ultimate_engine', c[1], c[2]) = get(e, c[1], c[2])
                 /\ set(ultimate_engine', x, y) = ultimate_engine'
           /\ op'.name = "set" =>
                 /\ \A c \in InBoundsCells(e) :
                       /\ set(e, c[1], c[2]) = WithOneBit(e, c[1], c[2])
                       /\ get(set(e, c[1], c[2]), c[1], c[2])
                       /\ set(set(e, c[1], c[2]), c[1], c[2]) = set(e, c[1], c[2])
                 /\ Cardinality({<<CellIndex(e, c[1], c[2]), CellBit(c[1])>> :
                                    c \in InBoundsCells(e)})
                       = Cardinality(InBoundsCells(e))]_vars

(* C26 witness: set(64, 0) of a 65-wide engine, called after a step that    *)
(* left live cells in new_field, has set the first bit of word-column 2.    *)
C26_Witness ==
    /\ op.name = "set" /\ fault = "none"
    /\ op.x = WordBits /\ op.y = 0
    /\ ultimate_engine.actual_width = WordBits + 1
    /\ Msb \subseteq ultimate_engine.field[ultimate_engine.columns + 2]
    /\ \E i \in DOMAIN ultimate_engine.new_field : ultimate_engine.new_field[i] # Zero

----------------------------------------------------------------------------
(* The interior of a field: padded rows 1 .. H, word-columns 1 ..           *)
(* columns - 2.                                                             *)
Interior(e) ==
    {y * e.columns + c : y \in 1 .. e.actual_height, c \in 1 .. (e.columns - 2)}

(* e with every interior word of new_field replaced by w.                   *)
WithShadow(e, w) ==
    [e EXCEPT !.new_field = Vec([k \in DOMAIN @ |-> IF k \in Interior(e) THEN w ELSE @[k]])]

(* The writes of one generation from e, each <<index, y, x, lane>>.         *)
StepWrites(e) == IF e.pool # 0 THEN PooledWrites(e) ELSE SequentialWrites(e)

(* C27: the state after a step is a function of field only.  A generation   *)
(* writes every interior word of new_field (rows 1 .. H, word-columns 1 ..  *)
(* columns - 2) exactly once and no other word, so a step leaves the engine *)
(* it would leave had the interior of new_field held all zeros or all ones: *)
(* nothing of an earlier generation left there, and no cell set between     *)
(* steps, reaches a later generation other than through field.              *)
C27_StepReadsFieldOnly ==
    [][LET e == ultimate_engine
           writes == StepWrites(e)
       IN  (op'.name = "step" /\ fault' = "none") =>
               /\ {w[1] : w \in writes} = Interior(e)
               /\ Cardinality(writes) = Cardinality(Interior(e))
               /\ ultimate_engine' = StepOnce(WithShadow(e, Zero))
               /\ ultimate_engine' = StepOnce(WithShadow(e, AllOnes))
               /\ ultimate_engine'.new_field = e.field]_vars

(* C27 witness: a step has left in new_field a live cell that is dead in    *)
(* field, and the next step stores a word other than the one left there.    *)
C27_Witness ==
    /\ op.name = "step" /\ fault = "none"
    /\ ~StepFaults(ultimate_engine)
    /\ \E k \in Interior(ultimate_engine) :
          /\ ultimate_engine.new_field[k] # Zero
          /\ ultimate_engine.field[k] = Zero
          /\ StepOnce(ultimate_engine).field[k] # ultimate_engine.new_field[k]

(* A cell was set between two steps while new_field held the generation     *)
(* before.                                                                  *)
C27_SetBetweenStepsWitness ==
    /\ op.name = "set" /\ fault = "none"
    /\ get(ultimate_engine, op.x, op.y)
    /\ \E k \in Interior(ultimate_engine) :
          /\ ultimate_engine.new_field[k] # Zero
          /\ StepOnce(ultimate_engine).field[k] # ultimate_engine.new_field[k]

====
